---- MODULE Spec2Model ----
(***************************************************************************)
(* DMX512 gateway on the RK3506 (pierrejay/rk3506-amp-demo).               *)
(*                                                                         *)
(* The module models the two real-time firmware images and the wire codec  *)
(* they share with the Linux command-line client:                          *)
(*   - the tiny-core (MCU, bare metal) image: byte-wise command parser,    *)
(*     dispatcher and cooperative DMX driver;                              *)
(*   - the big-core (AP, RT-Thread) image: per-message dispatcher, DMX     *)
(*     driver and transmit thread;                                         *)
(*   - the client's packet encoder.                                        *)
(* Packets are sequences of octets (1-indexed); C arrays are functions     *)
(* over their 0-based index range.                                         *)
(***************************************************************************)
EXTENDS Integers, Sequences, FiniteSets, TLC

(***************************************************************************)
(* Protocol constants                                                      *)
(***************************************************************************)
DMX_MAGIC_CMD == 170
DMX_MAGIC_RESP == 187
DMX_MAX_CHANNELS == 512
DMX_MAX_PAYLOAD == 1024

CMD_DMX_SET_CHANNELS == 1
CMD_DMX_GET_STATUS == 2
CMD_DMX_ENABLE == 3
CMD_DMX_DISABLE == 4
CMD_DMX_BLACKOUT == 5
CMD_DMX_SET_TIMING == 6
CMD_DMX_GET_TIMING == 7
\* The tiny-core protocol header that gives the opcode is not part of the
\* sources; any value outside 1..7 behaves the same in the dispatcher.
CMD_SYSTEM_RESET == 16
SYSTEM_RESET_MAGIC == <<239, 190, 173, 222>>

STATUS_OK == 0
STATUS_ERROR == 255
STATUS_INVALID_MAGIC == 1
STATUS_INVALID_CHECKSUM == 2
STATUS_INVALID_CMD == 3
STATUS_INVALID_LENGTH == 4

SIZEOF_dmx_timing_t == 6

(***************************************************************************)
(* Driver constants                                                        *)
(***************************************************************************)
DMX_UNIVERSE_SIZE == 512
DMX_FRAME_SIZE == 513

DMX_BREAK_US_DEFAULT == 150
DMX_BREAK_US_MIN == 88
DMX_BREAK_US_MAX == 1000
DMX_MAB_US_DEFAULT == 12
DMX_MAB_US_MIN == 8
DMX_MAB_US_MAX == 100
DMX_REFRESH_HZ_DEFAULT == 44
DMX_REFRESH_HZ_MIN == 1
DMX_REFRESH_HZ_MAX == 44

DMX_DEFAULT_REFRESH_HZ == 44
DMX_DEFAULT_BREAK_US == 150
DMX_DEFAULT_MAB_US == 12

RX_BUF_SIZE == 64
CMD_BUF_SIZE == 600
RL_BUFFER_PAYLOAD_SIZE == 496
TX_FIFO_DEPTH == 64

(***************************************************************************)
(* Octet arithmetic                                                        *)
(***************************************************************************)
Byte == 0..255

Bit(a, i) == (a \div (2^i)) % 2

\* a ^ b on uint8_t
Xor8(a, b) ==
    ((Bit(a,0) + Bit(b,0)) % 2)       + ((Bit(a,1) + Bit(b,1)) % 2) * 2
  + ((Bit(a,2) + Bit(b,2)) % 2) * 4   + ((Bit(a,3) + Bit(b,3)) % 2) * 8
  + ((Bit(a,4) + Bit(b,4)) % 2) * 16  + ((Bit(a,5) + Bit(b,5)) % 2) * 32
  + ((Bit(a,6) + Bit(b,6)) % 2) * 64  + ((Bit(a,7) + Bit(b,7)) % 2) * 128

\* XOR of data[lo..hi] (1-indexed, empty when lo > hi); the loop of
\* dmx_calc_checksum split in halves, XOR being associative.
RECURSIVE XorRange(_, _, _)
XorRange(data, lo, hi) ==
    IF lo > hi THEN 0
    ELSE IF lo = hi THEN data[lo]
    ELSE LET mid == (lo + hi) \div 2
         IN  Xor8(XorRange(data, lo, mid), XorRange(data, mid + 1, hi))

\* uint8_t dmx_calc_checksum(const uint8_t *data, uint16_t len)
dmx_calc_checksum(data, len) == XorRange(data, 1, len)

\* dmx_verify_checksum that only looks at the length
dmx_verify_checksum_lax(packet, total_len) == total_len >= 5

\* int dmx_verify_checksum(const uint8_t *packet, uint16_t total_len)
dmx_verify_checksum(packet, total_len) ==
    IF total_len < 5 THEN FALSE
    ELSE dmx_calc_checksum(packet, total_len - 1) = packet[total_len]

\* little-endian encodings of uint16_t / uint32_t struct fields
LE16(v) == << v % 256, (v \div 256) % 256 >>
LE32(v) == << v % 256, (v \div 256) % 256, (v \div 65536) % 256, (v \div 16777216) % 256 >>

\* build_cmd_packet of the client: [0xAA, cmd, len_lo, len_hi, payload.., xor]
build_cmd_packet(cmd, payload) ==
    LET payload_len == Len(payload)
        body == << DMX_MAGIC_CMD, cmd, payload_len % 256, (payload_len \div 256) % 256 >> \o payload
    IN  body \o << dmx_calc_checksum(body, 4 + payload_len) >>

\* The response packet both firmware images put on the link:
\* [0xBB, status, len_lo, len_hi, payload.., xor]
ResponsePacket(status, payload) ==
    LET payload_len == Len(payload)
        body == << DMX_MAGIC_RESP, status, payload_len % 256, (payload_len \div 256) % 256 >> \o payload
    IN  body \o << dmx_calc_checksum(body, 4 + payload_len) >>

(***************************************************************************)
(* C arrays.  Every array of the two images starts zeroed (static storage, *)
(* memset in dmx_init), so an array is kept as the function of its         *)
(* non-zero elements: At reads an element, Store assigns f(i) to every     *)
(* element i of R.                                                         *)
(***************************************************************************)
Zeroed == [i \in {} |-> 0]

At(a, i) == IF i \in DOMAIN a THEN a[i] ELSE 0

Store(a, R, f(_)) ==
    LET nz == (DOMAIN a \ R) \cup {i \in R : f(i) # 0}
    IN  [i \in nz |-> IF i \in R THEN f(i) ELSE a[i]]

\* the first n elements of a C array as a packet
BufSeq(buf, n) == [i \in 1..n |-> At(buf, i - 1)]

(***************************************************************************)
(* Tiny-core (MCU) DMX driver.  d is the record of the driver's globals.   *)
(***************************************************************************)
DMX_STATE_IDLE == "DMX_STATE_IDLE"
DMX_STATE_TX_DATA == "DMX_STATE_TX_DATA"

\* the driver's globals after their initialisers and dmx_init()
McuDrvInit ==
    [ g_dmx_frame   |-> Zeroed,
      g_frame_count |-> 0,
      g_enabled     |-> 0,
      g_refresh_hz  |-> DMX_DEFAULT_REFRESH_HZ,
      g_break_us    |-> DMX_DEFAULT_BREAK_US,
      g_mab_us      |-> DMX_DEFAULT_MAB_US,
      g_dmx_state   |-> DMX_STATE_IDLE,
      g_tx_idx      |-> 0 ]

\* void dmx_enable(void)
mcu_dmx_enable(d) ==
    IF d.g_enabled # 0 THEN d
    ELSE [d EXCEPT !.g_enabled = 1, !.g_frame_count = 0]

\* void dmx_disable(void)
mcu_dmx_disable(d) ==
    IF d.g_enabled = 0 THEN d
    ELSE [d EXCEPT !.g_enabled = 0]

\* dmx_set_channels that forgets the start code in front of the slots
mcu_dmx_set_channels_no_offset(d, start_channel, values, count) ==
    IF start_channel >= DMX_UNIVERSE_SIZE THEN [ret |-> -1, d |-> d]
    ELSE IF start_channel + count > DMX_UNIVERSE_SIZE THEN [ret |-> -1, d |-> d]
    ELSE IF count = 0 THEN [ret |-> -1, d |-> d]
    ELSE [ret |-> 0,
          d   |-> [d EXCEPT !.g_dmx_frame =
                     Store(d.g_dmx_frame, start_channel..(start_channel + count - 1),
                           LAMBDA i : values[i - start_channel + 1])]]

\* int dmx_set_channels(uint16_t start_channel, const uint8_t *values, uint16_t count)
\* values is the sequence of the count octets behind the pointer.
mcu_dmx_set_channels(d, start_channel, values, count) ==
    IF start_channel >= DMX_UNIVERSE_SIZE THEN [ret |-> -1, d |-> d]
    ELSE IF start_channel + count > DMX_UNIVERSE_SIZE THEN [ret |-> -1, d |-> d]
    ELSE IF count = 0 THEN [ret |-> -1, d |-> d]
    ELSE [ret |-> 0,
          d   |-> [d EXCEPT !.g_dmx_frame =
                     Store(d.g_dmx_frame, (start_channel + 1)..(start_channel + count),
                           LAMBDA i : values[i - start_channel])]]

\* dmx_blackout that leaves the slots alone
mcu_dmx_blackout_noop(d) == d

\* void dmx_blackout(void)
mcu_dmx_blackout(d) ==
    [d EXCEPT !.g_dmx_frame =
        Store(d.g_dmx_frame, 1..DMX_UNIVERSE_SIZE, LAMBDA i : 0)]

\* int dmx_set_timing(uint16_t refresh_hz, uint16_t break_us, uint16_t mab_us)
\* The three fields are checked and stored one after the other.
mcu_dmx_set_timing(d, refresh_hz, break_us, mab_us) ==
    IF refresh_hz > 0 /\ refresh_hz > 44 THEN [ret |-> -1, d |-> d]
    ELSE LET d1 == IF refresh_hz > 0 THEN [d EXCEPT !.g_refresh_hz = refresh_hz] ELSE d
         IN  IF break_us > 0 /\ (break_us < 88 \/ break_us > 1000) THEN [ret |-> -1, d |-> d1]
             ELSE LET d2 == IF break_us > 0 THEN [d1 EXCEPT !.g_break_us = break_us] ELSE d1
                  IN  IF mab_us > 0 /\ (mab_us < 8 \/ mab_us > 1000) THEN [ret |-> -1, d |-> d2]
                      ELSE [ret |-> 0,
                            d   |-> IF mab_us > 0 THEN [d2 EXCEPT !.g_mab_us = mab_us] ELSE d2]

\* void dmx_get_timing(uint16_t *refresh_hz, uint16_t *break_us, uint16_t *mab_us)
mcu_dmx_get_timing(d) ==
    [refresh_hz |-> d.g_refresh_hz, break_us |-> d.g_break_us, mab_us |-> d.g_mab_us]

\* void dmx_get_status(dmx_driver_status_t *status)
mcu_dmx_get_status(d) ==
    [enabled |-> d.g_enabled, frame_count |-> d.g_frame_count,
     refresh_hz |-> d.g_refresh_hz, break_us |-> d.g_break_us, mab_us |-> d.g_mab_us]

(***************************************************************************)
(* Tiny-core (MCU) command parser and dispatcher (main.c).                 *)
(*                                                                         *)
(* The functions below work on a record W:                                 *)
(*   W.p       the globals of main.c (parser state, g_rx_src)              *)
(*   W.d       the driver's globals                                        *)
(*   W.out     the response packets handed to rpmsg_lite_send with success *)
(*   W.n       the number of handle_complete_packet calls (g_cmd_count)    *)
(*   W.dec     the packets that passed the magic and checksum tests, as    *)
(*             the dispatcher sees them: [cmd, payload_len, payload]       *)
(*   W.diag    the parser's diagnostics on the debug console               *)
(*   W.link_ok whether rpmsg_lite_send returns RL_SUCCESS                  *)
(*   W.reset   TRUE once NVIC_SystemReset() has been issued                *)
(***************************************************************************)
PARSE_IDLE == "PARSE_IDLE"
PARSE_CMD == "PARSE_CMD"
PARSE_LEN_LO == "PARSE_LEN_LO"
PARSE_LEN_HI == "PARSE_LEN_HI"
PARSE_DATA == "PARSE_DATA"
PARSE_CHECKSUM == "PARSE_CHECKSUM"

\* the globals of main.c after their initialisers
McuMainInit ==
    [ g_parse_state     |-> PARSE_IDLE,
      g_cmd_buf         |-> Zeroed,
      g_cmd_idx         |-> 0,
      g_cmd_payload_len |-> 0,
      g_rx_src          |-> 0,
      g_rx_buf          |-> Zeroed,
      g_rx_head         |-> 0,
      g_rx_tail         |-> 0,
      rx_in             |-> << >>,   \* ghost: octets handed to rpmsg_rx_callback
      rx_out            |-> << >> ]  \* ghost: octets handed to parse_rx_byte

\* the len octets of the command buffer behind the payload pointer &buf[4]
McuPayload(W, len) == [i \in 1..len |-> At(W.p.g_cmd_buf, 4 + i - 1)]

\* static void send_response(uint8_t status, const uint8_t *payload, uint16_t payload_len)
mcu_send_response(W, status, payload) ==
    IF W.p.g_rx_src = 0 THEN W
    ELSE IF W.link_ok THEN [W EXCEPT !.out = Append(W.out, ResponsePacket(status, payload))]
    ELSE W

\* static void handle_cmd_set_channels(const uint8_t *data, uint16_t len)
mcu_handle_cmd_set_channels(W, len) ==
    IF len < 3 THEN mcu_send_response(W, STATUS_INVALID_LENGTH, <<>>)
    ELSE LET data  == McuPayload(W, len)
             start == data[1] + 256 * data[2]
             count == len - 2
             r     == mcu_dmx_set_channels(W.d, start, SubSeq(data, 3, len), count)
         IN  IF r.ret < 0 THEN mcu_send_response([W EXCEPT !.d = r.d], STATUS_ERROR, <<>>)
             ELSE mcu_send_response([W EXCEPT !.d = r.d], STATUS_OK, <<>>)

\* static void handle_cmd_get_status(void)
\* payload: enabled:u8, frame_count:u32, fps:u32 (packed), fps = refresh_hz * 100
mcu_handle_cmd_get_status(W) ==
    LET st == mcu_dmx_get_status(W.d)
    IN  mcu_send_response(W, STATUS_OK,
            << st.enabled >> \o LE32(st.frame_count) \o LE32(st.refresh_hz * 100))

\* handle_cmd_enable that answers without enabling the engine
mcu_handle_cmd_enable_noop(W) == mcu_send_response(W, STATUS_OK, <<>>)

\* static void handle_cmd_enable(void)
mcu_handle_cmd_enable(W) ==
    mcu_send_response([W EXCEPT !.d = mcu_dmx_enable(W.d)], STATUS_OK, <<>>)

\* static void handle_cmd_disable(void)
mcu_handle_cmd_disable(W) ==
    mcu_send_response([W EXCEPT !.d = mcu_dmx_disable(W.d)], STATUS_OK, <<>>)

\* static void handle_cmd_blackout(void)
mcu_handle_cmd_blackout(W) ==
    mcu_send_response([W EXCEPT !.d = mcu_dmx_blackout(W.d)], STATUS_OK, <<>>)

\* static void handle_cmd_set_timing(const uint8_t *data, uint16_t len)
mcu_handle_cmd_set_timing(W, len) ==
    IF len # SIZEOF_dmx_timing_t THEN mcu_send_response(W, STATUS_INVALID_LENGTH, <<>>)
    ELSE LET data == McuPayload(W, len)
             r    == mcu_dmx_set_timing(W.d, data[1] + 256 * data[2],
                                        data[3] + 256 * data[4], data[5] + 256 * data[6])
         IN  IF r.ret < 0 THEN mcu_send_response([W EXCEPT !.d = r.d], STATUS_ERROR, <<>>)
             ELSE mcu_send_response([W EXCEPT !.d = r.d], STATUS_OK, <<>>)

\* static void handle_cmd_get_timing(void)
mcu_handle_cmd_get_timing(W) ==
    LET t == mcu_dmx_get_timing(W.d)
    IN  mcu_send_response(W, STATUS_OK, LE16(t.refresh_hz) \o LE16(t.break_us) \o LE16(t.mab_us))

\* handle_cmd_system_reset that looks at the length of the payload only
mcu_handle_cmd_system_reset_any_magic(W, len) ==
    IF len # 4 THEN mcu_send_response(W, STATUS_INVALID_LENGTH, <<>>)
    ELSE LET W1 == mcu_send_response(W, STATUS_OK, <<>>)
         IN  [W1 EXCEPT !.d = mcu_dmx_disable(W1.d), !.reset = TRUE]

\* static void handle_cmd_system_reset(const uint8_t *data, uint16_t len)
\* On the magic: OK is sent, the engine is disabled, the SoC is reset (no return).
mcu_handle_cmd_system_reset(W, len) ==
    IF len # 4 THEN mcu_send_response(W, STATUS_INVALID_LENGTH, <<>>)
    ELSE IF McuPayload(W, 4) # SYSTEM_RESET_MAGIC THEN mcu_send_response(W, STATUS_ERROR, <<>>)
    ELSE LET W1 == mcu_send_response(W, STATUS_OK, <<>>)
         IN  [W1 EXCEPT !.d = mcu_dmx_disable(W1.d), !.reset = TRUE]

\* static void handle_complete_packet(void)
handle_complete_packet(W0) ==
    LET W           == [W0 EXCEPT !.n = W0.n + 1]
        buf         == W.p.g_cmd_buf
        total_len   == W.p.g_cmd_idx
        cmd         == At(buf, 1)
        payload_len == At(buf, 2) + 256 * At(buf, 3)
        V           == [W EXCEPT !.dec = Append(W.dec,
                              [cmd |-> cmd, payload_len |-> payload_len,
                               payload |-> McuPayload(W, payload_len)])]
    IN  IF At(buf, 0) # DMX_MAGIC_CMD
        THEN mcu_send_response([W EXCEPT !.diag = Append(W.diag, "BadMagic")],
                               STATUS_INVALID_MAGIC, <<>>)
        ELSE IF ~dmx_verify_checksum(BufSeq(buf, total_len), total_len)
             THEN mcu_send_response([W EXCEPT !.diag = Append(W.diag, "BadChecksum")],
                                    STATUS_INVALID_CHECKSUM, <<>>)
        ELSE CASE cmd = CMD_DMX_SET_CHANNELS -> mcu_handle_cmd_set_channels(V, payload_len)
               [] cmd = CMD_DMX_GET_STATUS   -> mcu_handle_cmd_get_status(V)
               [] cmd = CMD_DMX_ENABLE       -> mcu_handle_cmd_enable(V)
               [] cmd = CMD_DMX_DISABLE      -> mcu_handle_cmd_disable(V)
               [] cmd = CMD_DMX_BLACKOUT     -> mcu_handle_cmd_blackout(V)
               [] cmd = CMD_DMX_SET_TIMING   -> mcu_handle_cmd_set_timing(V, payload_len)
               [] cmd = CMD_DMX_GET_TIMING   -> mcu_handle_cmd_get_timing(V)
               [] cmd = CMD_SYSTEM_RESET     -> mcu_handle_cmd_system_reset(V, payload_len)
               [] OTHER                      -> mcu_send_response(V, STATUS_INVALID_CMD, <<>>)

\* g_cmd_buf[g_cmd_idx++] = byte
McuStore(p, byte) ==
    [p EXCEPT !.g_cmd_buf = Store(p.g_cmd_buf, {p.g_cmd_idx}, LAMBDA i : byte),
              !.g_cmd_idx = p.g_cmd_idx + 1]

\* parse_rx_byte with the limit of the payload length one octet too high
parse_rx_byte_limit_off_by_one(W, byte) ==
    LET p == W.p
    IN  CASE p.g_parse_state = PARSE_IDLE ->
               IF byte = DMX_MAGIC_CMD
               THEN [W EXCEPT !.p = [p EXCEPT !.g_cmd_buf = Store(p.g_cmd_buf, {0}, LAMBDA i : byte),
                                              !.g_cmd_idx = 1,
                                              !.g_parse_state = PARSE_CMD]]
               ELSE W
          [] p.g_parse_state = PARSE_CMD ->
               [W EXCEPT !.p = [McuStore(p, byte) EXCEPT !.g_parse_state = PARSE_LEN_LO]]
          [] p.g_parse_state = PARSE_LEN_LO ->
               [W EXCEPT !.p = [McuStore(p, byte) EXCEPT !.g_cmd_payload_len = byte,
                                                         !.g_parse_state = PARSE_LEN_HI]]
          [] p.g_parse_state = PARSE_LEN_HI ->
               LET plen == p.g_cmd_payload_len + 256 * byte
               IN  [W EXCEPT !.p = [McuStore(p, byte) EXCEPT
                        !.g_cmd_payload_len = plen,
                        !.g_parse_state = IF plen > CMD_BUF_SIZE - 4 THEN PARSE_IDLE
                                          ELSE IF plen = 0 THEN PARSE_CHECKSUM
                                          ELSE PARSE_DATA],
                             !.diag = IF plen > CMD_BUF_SIZE - 4
                                      THEN Append(W.diag, "OverLength") ELSE W.diag]
          [] p.g_parse_state = PARSE_DATA ->
               LET p1 == McuStore(p, byte)
               IN  [W EXCEPT !.p = IF p1.g_cmd_idx >= 4 + p1.g_cmd_payload_len
                                   THEN [p1 EXCEPT !.g_parse_state = PARSE_CHECKSUM]
                                   ELSE p1]
          [] p.g_parse_state = PARSE_CHECKSUM ->
               LET W1 == handle_complete_packet([W EXCEPT !.p = McuStore(p, byte)])
               IN  IF W1.reset THEN W1
                   ELSE [W1 EXCEPT !.p = [W1.p EXCEPT !.g_parse_state = PARSE_IDLE]]

\* static void parse_rx_byte(uint8_t byte)
parse_rx_byte(W, byte) ==
    LET p == W.p
    IN  CASE p.g_parse_state = PARSE_IDLE ->
               IF byte = DMX_MAGIC_CMD
               THEN [W EXCEPT !.p = [p EXCEPT !.g_cmd_buf = Store(p.g_cmd_buf, {0}, LAMBDA i : byte),
                                              !.g_cmd_idx = 1,
                                              !.g_parse_state = PARSE_CMD]]
               ELSE W
          [] p.g_parse_state = PARSE_CMD ->
               [W EXCEPT !.p = [McuStore(p, byte) EXCEPT !.g_parse_state = PARSE_LEN_LO]]
          [] p.g_parse_state = PARSE_LEN_LO ->
               [W EXCEPT !.p = [McuStore(p, byte) EXCEPT !.g_cmd_payload_len = byte,
                                                         !.g_parse_state = PARSE_LEN_HI]]
          [] p.g_parse_state = PARSE_LEN_HI ->
               LET plen == p.g_cmd_payload_len + 256 * byte
               IN  [W EXCEPT !.p = [McuStore(p, byte) EXCEPT
                        !.g_cmd_payload_len = plen,
                        !.g_parse_state = IF plen > CMD_BUF_SIZE - 5 THEN PARSE_IDLE
                                          ELSE IF plen = 0 THEN PARSE_CHECKSUM
                                          ELSE PARSE_DATA],
                             !.diag = IF plen > CMD_BUF_SIZE - 5
                                      THEN Append(W.diag, "OverLength") ELSE W.diag]
          [] p.g_parse_state = PARSE_DATA ->
               LET p1 == McuStore(p, byte)
               IN  [W EXCEPT !.p = IF p1.g_cmd_idx >= 4 + p1.g_cmd_payload_len
                                   THEN [p1 EXCEPT !.g_parse_state = PARSE_CHECKSUM]
                                   ELSE p1]
          [] p.g_parse_state = PARSE_CHECKSUM ->
               LET W1 == handle_complete_packet([W EXCEPT !.p = McuStore(p, byte)])
               IN  IF W1.reset THEN W1
                   ELSE [W1 EXCEPT !.p = [W1.p EXCEPT !.g_parse_state = PARSE_IDLE]]

\* The drain loop of main(): every pending octet goes through parse_rx_byte,
\* in order; nothing runs after NVIC_SystemReset().
RECURSIVE McuParseBytes(_, _, _)
McuParseBytes(W, bytes, i) ==
    IF i > Len(bytes) \/ W.reset THEN W
    ELSE McuParseBytes(parse_rx_byte(W, bytes[i]), bytes, i + 1)

(***************************************************************************)
(* Big-core (AP, RT-Thread) DMX driver.  g is the g_dmx structure.         *)
(***************************************************************************)
\* g_dmx after dmx_init(): rt_memset to 0, then the timing defaults
ApDmxInit ==
    [ channels    |-> Zeroed,
      frame_buf   |-> Zeroed,
      enabled     |-> FALSE,
      refresh_hz  |-> DMX_REFRESH_HZ_DEFAULT,
      break_us    |-> DMX_BREAK_US_DEFAULT,
      mab_us      |-> DMX_MAB_US_DEFAULT,
      frame_count |-> 0,
      fps         |-> 0 ]

\* void dmx_enable(void)
ap_dmx_enable(g) ==
    IF g.enabled THEN g
    ELSE [g EXCEPT !.enabled = TRUE, !.frame_count = 0]

\* void dmx_disable(void)
ap_dmx_disable(g) ==
    IF ~g.enabled THEN g
    ELSE [g EXCEPT !.enabled = FALSE]

\* int dmx_set_channels(uint16_t start, const uint8_t *values, uint16_t count)
ap_dmx_set_channels(g, start, values, count) ==
    IF start + count > DMX_UNIVERSE_SIZE THEN [ret |-> -1, g |-> g]
    ELSE [ret |-> 0,
          g   |-> [g EXCEPT !.channels =
                     Store(g.channels, start..(start + count - 1),
                           LAMBDA i : values[i - start + 1])]]

\* void dmx_blackout(void)
ap_dmx_blackout(g) ==
    [g EXCEPT !.channels = Store(g.channels, 0..(DMX_UNIVERSE_SIZE - 1), LAMBDA i : 0)]

\* dmx_set_timing that puts the default where a field of the request is zero
ap_dmx_set_timing_zero_is_default(g, refresh_hz, break_us, mab_us) ==
    IF refresh_hz # 0 /\ (refresh_hz < DMX_REFRESH_HZ_MIN \/ refresh_hz > DMX_REFRESH_HZ_MAX)
    THEN [ret |-> -1, g |-> g]
    ELSE LET g1 == [g EXCEPT !.refresh_hz = IF refresh_hz # 0 THEN refresh_hz
                                            ELSE DMX_REFRESH_HZ_DEFAULT]
         IN  IF break_us # 0 /\ (break_us < DMX_BREAK_US_MIN \/ break_us > DMX_BREAK_US_MAX)
             THEN [ret |-> -1, g |-> g1]
             ELSE LET g2 == [g1 EXCEPT !.break_us = IF break_us # 0 THEN break_us
                                                    ELSE DMX_BREAK_US_DEFAULT]
                  IN  IF mab_us # 0 /\ (mab_us < DMX_MAB_US_MIN \/ mab_us > DMX_MAB_US_MAX)
                      THEN [ret |-> -1, g |-> g2]
                      ELSE [ret |-> 0,
                            g   |-> [g2 EXCEPT !.mab_us = IF mab_us # 0 THEN mab_us
                                                          ELSE DMX_MAB_US_DEFAULT]]

\* int dmx_set_timing(uint16_t refresh_hz, uint16_t break_us, uint16_t mab_us)
\* The three fields are checked and stored one after the other.
ap_dmx_set_timing(g, refresh_hz, break_us, mab_us) ==
    IF refresh_hz # 0 /\ (refresh_hz < DMX_REFRESH_HZ_MIN \/ refresh_hz > DMX_REFRESH_HZ_MAX)
    THEN [ret |-> -1, g |-> g]
    ELSE LET g1 == IF refresh_hz # 0 THEN [g EXCEPT !.refresh_hz = refresh_hz] ELSE g
         IN  IF break_us # 0 /\ (break_us < DMX_BREAK_US_MIN \/ break_us > DMX_BREAK_US_MAX)
             THEN [ret |-> -1, g |-> g1]
             ELSE LET g2 == IF break_us # 0 THEN [g1 EXCEPT !.break_us = break_us] ELSE g1
                  IN  IF mab_us # 0 /\ (mab_us < DMX_MAB_US_MIN \/ mab_us > DMX_MAB_US_MAX)
                      THEN [ret |-> -1, g |-> g2]
                      ELSE [ret |-> 0,
                            g   |-> IF mab_us # 0 THEN [g2 EXCEPT !.mab_us = mab_us] ELSE g2]

\* void dmx_get_timing(uint16_t *refresh_hz, uint16_t *break_us, uint16_t *mab_us)
ap_dmx_get_timing(g) ==
    [refresh_hz |-> g.refresh_hz, break_us |-> g.break_us, mab_us |-> g.mab_us]

\* void dmx_get_status(dmx_driver_status_t *status)
ap_dmx_get_status(g) ==
    [enabled |-> g.enabled, frame_count |-> g.frame_count, fps |-> g.fps]

(***************************************************************************)
(* Big-core (AP) dispatcher (rpmsg protocol handler).                      *)
(*                                                                         *)
(* The functions work on a record A:                                       *)
(*   A.g       the g_dmx structure                                         *)
(*   A.rx      the receive buffer rx_buf: n, the number of leading octets  *)
(*             that messages have written so far, and b, those octets      *)
(*   A.wild    the octet a read of rx_buf yields where no message wrote:   *)
(*             malloc'ed storage never written, or storage behind the      *)
(*             buffer's RL_BUFFER_PAYLOAD_SIZE octets                      *)
(*   A.out     the response packets handed to rpmsg_lite_send with success *)
(*   A.n       the number of parse_command calls                           *)
(*   A.link_ok whether rpmsg_lite_send returns RL_SUCCESS                  *)
(***************************************************************************)
\* rx_buf[i]
RxAt(A, i) == IF i < A.rx.n THEN At(A.rx.b, i) ELSE A.wild

\* the len octets behind the payload pointer &rx_buf[4]
ApPayload(A, len) == [i \in 1..len |-> RxAt(A, 4 + i - 1)]

\* static void send_response(uint32_t dst_addr, uint8_t status, const uint8_t *payload, uint16_t payload_len)
ap_send_response(A, status, payload) ==
    IF A.link_ok THEN [A EXCEPT !.out = Append(A.out, ResponsePacket(status, payload))]
    ELSE A

\* static void handle_cmd_enable(uint32_t dst_addr)
ap_handle_cmd_enable(A) ==
    ap_send_response([A EXCEPT !.g = ap_dmx_enable(A.g)], STATUS_OK, <<>>)

\* static void handle_cmd_disable(uint32_t dst_addr)
ap_handle_cmd_disable(A) ==
    ap_send_response([A EXCEPT !.g = ap_dmx_disable(A.g)], STATUS_OK, <<>>)

\* handle_cmd_set_channels that returns on a range error without answering
ap_handle_cmd_set_channels_silent(A, len) ==
    IF len < 2 THEN ap_send_response(A, STATUS_INVALID_LENGTH, <<>>)
    ELSE LET start_channel == RxAt(A, 4) + 256 * RxAt(A, 5)
             count         == len - 2
         IN  IF start_channel + count > DMX_MAX_CHANNELS
             THEN A
             ELSE LET r == ap_dmx_set_channels(A.g, start_channel,
                                               [i \in 1..count |-> RxAt(A, 6 + i - 1)], count)
                  IN  IF r.ret < 0 THEN ap_send_response([A EXCEPT !.g = r.g], STATUS_ERROR, <<>>)
                      ELSE ap_send_response([A EXCEPT !.g = r.g], STATUS_OK, <<>>)

\* static void handle_cmd_set_channels(uint32_t dst_addr, const uint8_t *data, uint16_t len)
ap_handle_cmd_set_channels(A, len) ==
    IF len < 2 THEN ap_send_response(A, STATUS_INVALID_LENGTH, <<>>)
    ELSE LET start_channel == RxAt(A, 4) + 256 * RxAt(A, 5)
             count         == len - 2
         IN  IF start_channel + count > DMX_MAX_CHANNELS
             THEN ap_send_response(A, STATUS_ERROR, <<>>)
             ELSE LET r == ap_dmx_set_channels(A.g, start_channel,
                                               [i \in 1..count |-> RxAt(A, 6 + i - 1)], count)
                  IN  IF r.ret < 0 THEN ap_send_response([A EXCEPT !.g = r.g], STATUS_ERROR, <<>>)
                      ELSE ap_send_response([A EXCEPT !.g = r.g], STATUS_OK, <<>>)

\* static void handle_cmd_get_status(uint32_t dst_addr)
ap_handle_cmd_get_status(A) ==
    LET st == ap_dmx_get_status(A.g)
    IN  ap_send_response(A, STATUS_OK,
            << IF st.enabled THEN 1 ELSE 0 >> \o LE32(st.frame_count) \o LE32(st.fps))

\* static void handle_cmd_blackout(uint32_t dst_addr)
ap_handle_cmd_blackout(A) ==
    ap_send_response([A EXCEPT !.g = ap_dmx_blackout(A.g)], STATUS_OK, <<>>)

\* static void handle_cmd_set_timing(uint32_t dst_addr, uint8_t *payload, uint16_t len)
ap_handle_cmd_set_timing(A, len) ==
    IF len # SIZEOF_dmx_timing_t THEN ap_send_response(A, STATUS_INVALID_LENGTH, <<>>)
    ELSE LET data == ApPayload(A, len)
             r    == ap_dmx_set_timing(A.g, data[1] + 256 * data[2],
                                       data[3] + 256 * data[4], data[5] + 256 * data[6])
         IN  IF r.ret # 0 THEN ap_send_response([A EXCEPT !.g = r.g], STATUS_ERROR, <<>>)
             ELSE ap_send_response([A EXCEPT !.g = r.g], STATUS_OK, <<>>)

\* static void handle_cmd_get_timing(uint32_t dst_addr)
ap_handle_cmd_get_timing(A) ==
    LET t == ap_dmx_get_timing(A.g)
    IN  ap_send_response(A, STATUS_OK, LE16(t.refresh_hz) \o LE16(t.break_us) \o LE16(t.mab_us))

\* static void parse_command(uint8_t *rx_buf, uint32_t rx_len, uint32_t src_addr)
parse_command(A0, rx_len) ==
    LET A           == [A0 EXCEPT !.n = A0.n + 1]
        cmd         == RxAt(A, 1)
        payload_len == RxAt(A, 2) + 256 * RxAt(A, 3)
    IN  IF rx_len < 5 THEN ap_send_response(A, STATUS_INVALID_LENGTH, <<>>)
        ELSE IF RxAt(A, 0) # DMX_MAGIC_CMD THEN ap_send_response(A, STATUS_INVALID_MAGIC, <<>>)
        ELSE IF ~dmx_verify_checksum(BufSeq(A.rx.b, rx_len), rx_len)
             THEN ap_send_response(A, STATUS_INVALID_CHECKSUM, <<>>)
        ELSE CASE cmd = CMD_DMX_ENABLE       -> ap_handle_cmd_enable(A)
               [] cmd = CMD_DMX_DISABLE      -> ap_handle_cmd_disable(A)
               [] cmd = CMD_DMX_SET_CHANNELS -> ap_handle_cmd_set_channels(A, payload_len)
               [] cmd = CMD_DMX_GET_STATUS   -> ap_handle_cmd_get_status(A)
               [] cmd = CMD_DMX_BLACKOUT     -> ap_handle_cmd_blackout(A)
               [] cmd = CMD_DMX_SET_TIMING   -> ap_handle_cmd_set_timing(A, payload_len)
               [] cmd = CMD_DMX_GET_TIMING   -> ap_handle_cmd_get_timing(A)
               [] OTHER                      -> ap_send_response(A, STATUS_INVALID_CMD, <<>>)

\* rpmsg_queue_recv copies the message to the start of rx_buf
RxCopy(rx, msg) ==
    [n |-> IF Len(msg) > rx.n THEN Len(msg) ELSE rx.n,
     b |-> Store(rx.b, 0..(Len(msg) - 1), LAMBDA i : msg[i + 1])]

(***************************************************************************)
(* State                                                                   *)
(***************************************************************************)
VARIABLES
    fw,          \* which firmware image runs on the real-time side: "mcu" or "ap"
    mcu,         \* MCU: globals of main.c (parser state, command buffer, g_rx_src)
    drv,         \* MCU: globals of the DMX driver
    g_dmx,       \* AP: the g_dmx structure of the DMX driver
    rx_buf,      \* AP: the receive buffer of rpmsg_recv_thread
    tx_pc,       \* AP: position of dmx_tx_thread_entry ("loop" or "send")
    rx_pending,  \* MCU: octets received from the link and not yet parsed
    last_msg,    \* the last message the host put on the link
    send_ok,     \* whether rpmsg_lite_send succeeds while last_msg is served
    responses,   \* response packets sent while last_msg was served
    n_dispatch,  \* dispatcher calls made while last_msg was served
    decoded,     \* MCU: packets validated while last_msg was served
    diag,        \* MCU: parser diagnostics printed while last_msg was served
    wire,        \* octets put on the DMX line since the last BREAK: len of them, in b
    script,      \* the messages a scripted host session sends, in order
    script_pos,  \* how many of them have been sent
    uart,        \* the UART of the DMX line, and what the driver met at its last wait and BREAK
    clk,         \* time: the microsecond timer, the tick, and what the drivers keep of them
    mbox,        \* MCU: the host-to-MCU mailbox and the state of the rpmsg-lite port
    gw           \* host: the gateway (coordinator, its goroutines, scheduler, lifecycle)

vars == << fw, mcu, drv, g_dmx, rx_buf, tx_pc, rx_pending, last_msg, send_ok,
           responses, n_dispatch, decoded, diag, wire, script, script_pos,
           uart, clk, mbox, gw >>

\* the hardware and the gateway beside the command service
hwvars == << uart, clk, mbox, gw >>

(***************************************************************************)
(* The UART of the DMX line                                                *)
(*   uart.lcr     the line control register                                *)
(*   uart.busy    the transmitter holds octets: not (USR.TFE and not       *)
(*                USR.BUSY)                                                *)
(*   uart.wait    how the last uart_wait_idle ended                        *)
(*   uart.brk     what the transmitter was doing when the last BREAK was   *)
(*                asserted                                                 *)
(*   uart.brk_lcr the line control register during the last BREAK          *)
(*   uart.errors  AP: g_dmx.errors (the MCU driver keeps no error count)   *)
(***************************************************************************)
UART_LCR_BREAK == 64
UART_LCR_8N2 == 7

\* a | UART_LCR_BREAK
WithBreakBit(a) == IF Bit(a, 6) = 1 THEN a ELSE a + UART_LCR_BREAK

\* the UART as the driver finds it, the line control register holding lcr
UartPowerOn(lcr) ==
    [lcr |-> lcr, busy |-> FALSE, wait |-> "none", brk |-> "none", brk_lcr |-> 0, errors |-> 0]

\* static void uart_wait_idle(void)   (MCU)
\* Up to 100000 reads of USR; during is what the transmitter does meanwhile:
\* it "retires" its octets, or it "stays" busy until the reads are used up.
mcu_uart_wait_idle(u, during) ==
    IF ~u.busy THEN [u EXCEPT !.wait = "idle"]
    ELSE IF during = "retires" THEN [u EXCEPT !.busy = FALSE, !.wait = "idle"]
    ELSE [u EXCEPT !.wait = "timeout"]

\* static void send_break_mab(void)   (MCU)
mcu_send_break_mab(u) ==
    LET lcr == u.lcr
        u1  == [u EXCEPT !.lcr = WithBreakBit(lcr),
                         !.brk = IF u.busy THEN "busy" ELSE "idle",
                         !.brk_lcr = WithBreakBit(lcr)]
    IN  [u1 EXCEPT !.lcr = lcr]

\* static void uart_wait_idle(volatile struct UART_REG *uart)   (AP)
ap_uart_wait_idle(u, during) ==
    IF ~u.busy THEN [u EXCEPT !.wait = "idle"]
    ELSE IF during = "retires" THEN [u EXCEPT !.busy = FALSE, !.wait = "idle"]
    ELSE [u EXCEPT !.wait = "timeout"]

\* static void uart_send_break_mab(uart3, break_us, mab_us)   (AP)
ap_uart_send_break_mab(u) ==
    LET u1 == [u EXCEPT !.lcr = WithBreakBit(UART_LCR_8N2),
                        !.brk = IF u.busy THEN "busy" ELSE "idle",
                        !.brk_lcr = WithBreakBit(UART_LCR_8N2)]
    IN  [u1 EXCEPT !.lcr = UART_LCR_8N2]

\* static void uart_tx_poll(uart, buf, len)   (AP)
\* LCR forced to 8N2, the FIFOs reset, the octets written, then the spin
\* until the transmitter has retired them all.
ap_uart_tx_poll(u) == [u EXCEPT !.lcr = UART_LCR_8N2, !.busy = FALSE]

(***************************************************************************)
(* Time and the mailbox at power-on                                        *)
(***************************************************************************)
\*   clk.now                microseconds since power-on
\*   clk.held               octets the transmitter of the DMX line holds
\*   clk.g_last_frame_time  MCU driver: g_last_frame_time
\*   clk.last_fps_time, clk.last_frame_count
\*                          AP driver: g_dmx.last_fps_time, g_dmx.last_frame_count
\*   clk.t_break            when the latest BREAK was asserted
\*   clk.period             microseconds between the latest two BREAKs (0: fewer than two)
\*   clk.frames             frames started since power-on
ClkInit == [now |-> 0, held |-> 0, g_last_frame_time |-> 0, last_fps_time |-> 0,
            last_frame_count |-> 0, t_break |-> 0, period |-> 0, frames |-> 0]

\* one octet on the line at DMX_BAUDRATE 250000, 8N2: 11 bits of 4 us
OCTET_US == 44

\* the tick rate of the AP's kernel
RT_TICK_PER_SECOND == 1000

\* rt_tick_get() at microsecond t
Tick(t) == (t * RT_TICK_PER_SECOND) \div 1000000

\* uint32_t dmx_get_frame_interval_us(void)   (MCU)
dmx_get_frame_interval_us(d) ==
    IF d.g_refresh_hz = 0 THEN 1000000 ELSE 1000000 \div d.g_refresh_hz

(***************************************************************************)
(* The mailbox port of rpmsg-lite on the MCU                               *)
(***************************************************************************)
RL_RPMSG_MAGIC == 1380799303
RL_MAX_INSTANCE_NUM == 12

\* MBOX3 A2B channel 0 (status bit 0, command and data word), bit 0 of
\* MBOX1 B2A_STATUS, the statics of the port, and what has happened: the
\* messages the host raised, the ones taken with a write-1-to-clear (by
\* "isr" or by "init"), and the calls of env_isr (link id, queue).
MboxInit ==
    [ status |-> 0, CMD |-> 0, DATA |-> 0, b2a |-> 0,
      installed |-> FALSE, registered |-> {},
      isr_counter |-> 0, first_notify |-> 0, register_count |-> 0,
      raised |-> << >>, acked |-> << >>, env_isr |-> << >> ]

\* static void rpmsg_remote_cb(struct MBOX_CMD_DAT *msg, void *args)
\* that forwards whatever the data word holds
rpmsg_remote_cb_no_magic(m, msg) ==
    IF m.first_notify = 0
    THEN [m EXCEPT !.env_isr = Append(@, << msg.CMD % 256, 0 >>), !.first_notify = @ + 1]
    ELSE [m EXCEPT !.env_isr = Append(@, << msg.CMD % 256, 1 >>)]

\* static void rpmsg_remote_cb(struct MBOX_CMD_DAT *msg, void *args)
rpmsg_remote_cb(m, msg) ==
    IF msg.DATA # RL_RPMSG_MAGIC THEN m
    ELSE LET link_id == msg.CMD % 256
         IN  IF m.first_notify = 0
             THEN [m EXCEPT !.env_isr = Append(@, << link_id, 0 >>), !.first_notify = @ + 1]
             ELSE [m EXCEPT !.env_isr = Append(@, << link_id, 1 >>)]

\* read A2B_CMD and A2B_DATA, write 1 to bit 0 of A2B_STATUS, call the callback
MboxTake(m, by) ==
    LET msg == [CMD |-> m.CMD, DATA |-> m.DATA]
    IN  rpmsg_remote_cb([m EXCEPT !.status = 0,
                                  !.acked = Append(@, << m.CMD, m.DATA, by >>)], msg)

\* static void rpmsg_mbox_isr(void)
rpmsg_mbox_isr(m) ==
    LET m1 == IF m.status = 1 THEN MboxTake(m, "isr") ELSE m
    IN  IF m1.b2a = 1 THEN [m1 EXCEPT !.b2a = 0] ELSE m1

\* int32_t platform_init_interrupt(uint32_t vector_id, void *isr_data)
platform_init_interrupt(m, vector_id) ==
    LET m0 == [m EXCEPT !.registered = @ \cup { vector_id }]
        m1 == IF m0.isr_counter < 2 * RL_MAX_INSTANCE_NUM
              THEN LET m2 == IF m0.register_count % 2 = 0
                             THEN LET m3 == [m0 EXCEPT !.installed = TRUE]
                                  IN  IF m3.status = 1 THEN MboxTake(m3, "init") ELSE m3
                             ELSE m0
                   IN  [m2 EXCEPT !.register_count = @ + 1]
              ELSE m0
    IN  [m1 EXCEPT !.isr_counter = @ + 1]

\* void platform_notify(uint32_t vector_id): HAL_MBOX_SendMsg on MBOX1
platform_notify(m) == [m EXCEPT !.b2a = 1]

(***************************************************************************)
(* The command-line client (dmx_client) and the endpoint it opens          *)
(*   gw.ep     octets the firmware sent and no process has read yet, each  *)
(*             with the invocation whose command it answers (ghost)        *)
(*   gw.link   messages written to the endpoint and not yet served         *)
(*   gw.procs  the client processes                                        *)
(***************************************************************************)
CliProcs == {1, 2}

\* sizeof(resp_buf) of dmx_enable, dmx_disable, dmx_set_channels, dmx_blackout, dmx_set_timing
RESP_BUF_SMALL == 16
\* sizeof(dmx_status_payload_t)
SIZEOF_dmx_status_payload_t == 9

CliIdle == [pc |-> "none", id |-> 0, argv |-> << >>, cmd |-> 0, payload |-> << >>, bufsize |-> 0,
            phase |-> "", rd |-> << >>, hdr |-> << >>, data |-> << >>,
            ret |-> 0, exit |-> -1, why |-> "", from |-> {}]

\* int main(): from the arguments to the call of a command function; go tells
\* whether a command is sent, ret is the value main returns otherwise
CliStop(ret, why) == [go |-> FALSE, ret |-> ret, why |-> why, cmd |-> 0, payload |-> << >>, bufsize |-> 0]
CliGo(cmd, payload, bufsize) ==
    [go |-> TRUE, ret |-> 0, why |-> "", cmd |-> cmd, payload |-> payload, bufsize |-> bufsize]

cli_main(argv, open_ok, tty_ok) ==
    IF Len(argv) < 1 THEN CliStop(1, "usage")
    ELSE IF argv[1] = "help" THEN CliStop(0, "ok")
    ELSE IF ~open_ok THEN CliStop(1, "open")
    ELSE IF ~tty_ok THEN CliStop(1, "tty")
    ELSE IF argv[1] = "enable" THEN CliGo(CMD_DMX_ENABLE, << >>, RESP_BUF_SMALL)
    ELSE IF argv[1] = "disable" THEN CliGo(CMD_DMX_DISABLE, << >>, RESP_BUF_SMALL)
    ELSE IF argv[1] = "status" THEN CliGo(CMD_DMX_GET_STATUS, << >>, SIZEOF_dmx_status_payload_t)
    ELSE IF argv[1] = "blackout" THEN CliGo(CMD_DMX_BLACKOUT, << >>, RESP_BUF_SMALL)
    ELSE IF argv[1] = "timing" THEN
        IF Len(argv) >= 2
        THEN LET refresh_hz == argv[2]
                 break_us   == IF Len(argv) >= 3 THEN argv[3] ELSE 0
                 mab_us     == IF Len(argv) >= 4 THEN argv[4] ELSE 0
             IN  IF refresh_hz # 0 /\ (refresh_hz < 1 \/ refresh_hz > 44) THEN CliStop(1, "args")
                 ELSE IF break_us # 0 /\ (break_us < 88 \/ break_us > 1000) THEN CliStop(1, "args")
                 ELSE IF mab_us # 0 /\ (mab_us < 8 \/ mab_us > 100) THEN CliStop(1, "args")
                 ELSE CliGo(CMD_DMX_SET_TIMING, LE16(refresh_hz) \o LE16(break_us) \o LE16(mab_us),
                            RESP_BUF_SMALL)
        ELSE CliGo(CMD_DMX_GET_TIMING, << >>, SIZEOF_dmx_timing_t)
    ELSE IF argv[1] = "set" /\ Len(argv) >= 3 THEN
        LET channel == argv[2]
            values  == argv[3]
        IN  IF channel < 1 \/ channel > DMX_MAX_CHANNELS THEN CliStop(1, "args")
            ELSE IF \E i \in DOMAIN values : values[i] < 0 \/ values[i] > 255 THEN CliStop(1, "args")
            ELSE CliGo(CMD_DMX_SET_CHANNELS, LE16(channel - 1) \o values, RESP_BUF_SMALL)
    ELSE CliStop(1, "unknown")

\* the exit status the parent sees for the value main returns
ExitStatus(ret) == IF ret < 0 THEN ret + 256 ELSE ret % 256

\* return of main: cleanup, close(fd)
CliExit(pr, ret, why) ==
    [pr EXCEPT !.pc = "done", !.ret = ret, !.exit = ExitStatus(ret), !.why = why]

\* send_cmd_and_recv after a read_exact that got all its octets
CliAfterRead(pr) ==
    LET got == [i \in DOMAIN pr.rd |-> pr.rd[i].b]
    IN  CASE pr.phase = "hdr" ->
               LET data_len == got[3] + 256 * got[4]
                   p1 == [pr EXCEPT !.hdr = got, !.rd = << >>]
               IN  IF got[1] # DMX_MAGIC_RESP THEN CliExit(p1, -1, "magic")
                   ELSE IF data_len > 0
                        THEN IF data_len > pr.bufsize THEN CliExit(p1, -1, "toolarge")
                             ELSE [p1 EXCEPT !.phase = "data"]
                        ELSE [p1 EXCEPT !.phase = "sum"]
          [] pr.phase = "data" -> [pr EXCEPT !.data = got, !.rd = << >>, !.phase = "sum"]
          [] pr.phase = "sum" ->
               LET full_packet == pr.hdr \o pr.data \o got
                   p1 == [pr EXCEPT !.rd = << >>]
               IN  IF ~dmx_verify_checksum(full_packet, Len(full_packet))
                   THEN CliExit(p1, -1, "checksum")
                   ELSE IF pr.hdr[2] # STATUS_OK THEN CliExit(p1, -1, "status")
                   ELSE CliExit(p1, 0, "ok")

\* octets the read_exact of a phase asks for
CliNeed(pr) ==
    CASE pr.phase = "hdr" -> 4
      [] pr.phase = "data" -> pr.hdr[3] + 256 * pr.hdr[4]
      [] pr.phase = "sum" -> 1

(***************************************************************************)
(* The gateway's coordinator (dmx.State) and its client of dmx_client      *)
(*                                                                         *)
(* m is the record of the gateway.  A call of the coordinator runs in a    *)
(* goroutine as a list of steps (prog); a step is what the code does       *)
(* between two points where it takes or gives up a lock or waits for the   *)
(* subprocess.                                                             *)
(***************************************************************************)
Goroutines == {"w1", "w2", "refresh", "sched", "main"}
SubIds == {"A", "B"}

\* the lights of the configuration: key "group/name", and for each of its
\* channels the DMX channel and the channel name
GwLights ==
    ("g/a" :> << [Ch |-> 1, Name |-> "r"], [Ch |-> 2, Name |-> "w"] >>) @@
    ("g/b" :> << [Ch |-> 3, Name |-> "r"] >>)

\* func (c *Config) GetGroupLights(groupName string) []string
GetGroupLights(group) == IF group = "g" THEN << "a", "b" >> ELSE << >>

\* func LightKey(group, light string) string
LightKey(group, name) == IF group = "g" /\ name \in {"a", "b"} THEN "g/" \o name ELSE "none"

\* default of dmx.throttle_ms
ThrottleMs == 25

GIdle ==
    [ pc |-> "idle", prog |-> << >>, op |-> "none", ch |-> 0, v |-> 0,
      res |-> "none", err |-> FALSE,
      data |-> [enabled |-> FALSE, values |-> << >>, ver |-> 0, op |-> 0],
      id |-> 0, on |-> FALSE, failed |-> FALSE, noop |-> FALSE, before |-> << >>, subs0 |-> {},
      cmds0 |-> 0,
      enq |-> [s \in SubIds |-> 0], full |-> [s \in SubIds |-> 0] ]

\* func NewState(...) and buildLightsCache(): everything zero, no subscriber
GwInit ==
    [ channels |-> Zeroed, enabled |-> FALSE,
      lights |-> [key \in DOMAIN GwLights |->
                     [n \in { GwLights[key][i].Name : i \in DOMAIN GwLights[key] } |-> 0]],
      subs |-> {}, queue |-> [s \in SubIds |-> << >>], dropped |-> 0,
      closed |-> {}, panic |-> FALSE,
      seen |-> [s \in SubIds |-> 0],
      mu_r |-> {}, client_mu |-> "free",
      n_cmds |-> 0, n_ok |-> 0, since |-> ThrottleMs, gap |-> ThrottleMs,
      ver |-> 0, calls |-> 0, live |-> {},
      sched |-> [events |-> << >>, lastRun |-> -1, tod |-> 0, ticks |-> 0, ran |-> 0, running |-> FALSE],
      down |-> << >>, mainpc |-> 0, parts |-> {},
      ep |-> << >>, link |-> << >>, procs |-> [p \in CliProcs |-> CliIdle], invs |-> 0,
      mir |-> [cfg |-> << >>, channels |-> Zeroed, lights |-> << >>],
      mb |-> [fc |-> 0, startAddr |-> 0, quantity |-> 0, exc |-> "", idx |-> {}, resp |-> << >>],
      g |-> [x \in Goroutines |-> GIdle] ]

\* the mirror: enabled flag, channels, per-light values
Mirror(m) == << m.enabled, m.channels, m.lights >>

\* one step of a prog
Ins(k) == [k |-> k, what |-> "", ch |-> 0, v |-> 0, key |-> "", vals |-> Zeroed, abort |-> FALSE]

InsExec(what, ch, v, abort) == [Ins("exec") EXCEPT !.what = what, !.ch = ch, !.v = v, !.abort = abort]

\* func (s *State) broadcastState()
ProgBroadcast == << Ins("bcast"), Ins("marshal"), Ins("send") >>

\* func (s *State) Enable() error
ProgEnable ==
    << InsExec("enable", 0, 0, TRUE), [Ins("commit") EXCEPT !.what = "enable"] >> \o ProgBroadcast

\* func (s *State) Disable() error
ProgDisable ==
    << InsExec("disable", 0, 0, TRUE), [Ins("commit") EXCEPT !.what = "disable"] >> \o ProgBroadcast

\* func (s *State) Blackout() error
ProgBlackout ==
    << InsExec("blackout", 0, 0, TRUE), [Ins("commit") EXCEPT !.what = "blackout"] >> \o ProgBroadcast

\* SetChannel without the test of the channel number
ProgSetChannel_any_channel(channel, value) ==
    << [Ins("commit") EXCEPT !.what = "set", !.ch = channel, !.v = value],
       InsExec("set", channel, value, TRUE) >> \o ProgBroadcast

\* func (s *State) SetChannel(channel int, value uint8) error
ProgSetChannel(channel, value) ==
    IF channel < 1 \/ channel > 512 THEN << >>
    ELSE << [Ins("commit") EXCEPT !.what = "set", !.ch = channel, !.v = value],
            InsExec("set", channel, value, TRUE) >> \o ProgBroadcast

RECURSIVE LightExecs(_, _, _)
\* the loop over s.cfg.GetLight(group, name) of SetLight
LightExecs(chs, values, i) ==
    IF i > Len(chs) THEN << >>
    ELSE (IF chs[i].Name \in DOMAIN values
          THEN << InsExec("set", chs[i].Ch, values[chs[i].Name], FALSE) >>
          ELSE << >>) \o LightExecs(chs, values, i + 1)

\* func (s *State) SetLight(group, name string, values map[string]uint8) error
ProgSetLight(group, name, values) ==
    LET key == LightKey(group, name)
    IN  IF key \notin DOMAIN GwLights THEN << >>
        ELSE << [Ins("commit") EXCEPT !.what = "light", !.key = key, !.vals = values] >>
             \o LightExecs(GwLights[key], values, 1) \o ProgBroadcast

RECURSIVE GroupProg(_, _, _, _)
GroupProg(group, names, values, i) ==
    IF i > Len(names) THEN << >>
    ELSE ProgSetLight(group, names[i], values) \o GroupProg(group, names, values, i + 1)

\* func (s *State) SetGroup(groupName string, values map[string]uint8) error
ProgSetGroup(group, values) == GroupProg(group, GetGroupLights(group), values, 1)

\* func (s *State) refresh()
ProgRefresh == << Ins("peek") >> \o ProgBroadcast \o << Ins("gate"), Ins("rlock") >>

\* s.lightKeys
GwLightKeys == << "g/a", "g/b" >>

RECURSIVE RefreshExecs(_, _, _)
\* the loops of refresh over s.lights and ls.Channels, entered with mu read-locked
RefreshExecs(m, k, i) ==
    IF k > Len(GwLightKeys) THEN << Ins("runlock") >>
    ELSE LET key == GwLightKeys[k]
             chs == GwLights[key]
         IN  IF i > Len(chs) THEN RefreshExecs(m, k + 1, 1)
             ELSE << InsExec("set", chs[i].Ch, m.lights[key][chs[i].Name], FALSE) >>
                  \o RefreshExecs(m, k, i + 1)

\* func (s *Scheduler) check(): sc.tod is the time of day of time.Now(), which
\* is also the label nowStr; ran is the event handed to execute (0: none).
\* lastRun is written when execute has returned; nothing reads it before.
sched_check(sc) ==
    IF sc.lastRun = sc.tod THEN [sc EXCEPT !.ran = 0]
    ELSE LET hit == { i \in DOMAIN sc.events : sc.events[i].t = sc.tod }
         IN  IF hit = {} THEN [sc EXCEPT !.ran = 0]
             ELSE [sc EXCEPT !.ran = CHOOSE i \in hit : \A j \in hit : i <= j,
                             !.lastRun = sc.tod]

\* func (s *Scheduler) execute(e Event): the call of the coordinator it makes
ProgExecute(e) ==
    IF e.blackout THEN ProgBlackout ELSE ProgSetGroup("g", ("r" :> 9))

\* the part of SetChannel, SetLight, Enable, Disable and Blackout under s.mu.Lock()
GwCommit(m, ins) ==
    LET chans == IF ins.what = "blackout" THEN Zeroed
                 ELSE IF ins.what = "set" THEN Store(m.channels, {ins.ch}, LAMBDA i : ins.v)
                 ELSE IF ins.what = "light"
                      THEN LET hit == { i \in DOMAIN GwLights[ins.key] :
                                            GwLights[ins.key][i].Name \in DOMAIN ins.vals }
                               chOf == { GwLights[ins.key][i].Ch : i \in hit }
                           IN  Store(m.channels, chOf,
                                     LAMBDA c : ins.vals[GwLights[ins.key][
                                                    CHOOSE i \in hit :
                                                       /\ GwLights[ins.key][i].Ch = c
                                                       /\ \A j \in hit : GwLights[ins.key][j].Ch = c => j <= i].Name])
                 ELSE m.channels
        lts == [key \in DOMAIN m.lights |-> [n \in DOMAIN m.lights[key] |->
                   IF ins.what = "blackout" THEN 0
                   ELSE IF ins.what = "set"
                        THEN IF \E i \in DOMAIN GwLights[key] :
                                    GwLights[key][i].Ch = ins.ch /\ GwLights[key][i].Name = n
                             THEN ins.v ELSE m.lights[key][n]
                   ELSE IF ins.what = "light" /\ key = ins.key /\ n \in DOMAIN ins.vals
                        THEN ins.vals[n]
                   ELSE m.lights[key][n]]]
        en == IF ins.what = "enable" THEN TRUE
              ELSE IF ins.what = "disable" THEN FALSE ELSE m.enabled
    IN  [m EXCEPT !.channels = chans, !.lights = lts, !.enabled = en, !.ver = @ + 1]

(***************************************************************************)
(* Bounds of the model                                                     *)
(***************************************************************************)
\* frames transmitted per enable (frame_count is capped in the guards)
MaxFrames == 1
\* octets a read of rx_buf yields where no message wrote
WildOctets == {0, 238}
\* source addresses the host endpoint may have (never 0 on Linux)
SrcAddrs == {1024}
\* room the driver may find in the TX FIFO on one poll
FifoRoom == {0, TX_FIFO_DEPTH}
\* measured rates the transmit thread may compute (fps x 100)
FpsSamples == {4400}

\* the DMX line before the first BREAK
NoWire == [len |-> 0, b |-> Zeroed]

(***************************************************************************)
(* Initial state: power-on, after dmx_init() and the endpoint creation     *)
(***************************************************************************)
InitCommon ==
    /\ fw \in {"mcu", "ap"}
    /\ mcu = McuMainInit
    /\ drv = McuDrvInit
    /\ g_dmx = ApDmxInit
    /\ rx_buf = [n |-> 0, b |-> Zeroed]
    /\ tx_pc = "loop"
    /\ rx_pending = << >>
    /\ last_msg = << >>
    /\ send_ok = TRUE
    /\ responses = << >>
    /\ n_dispatch = 0
    /\ decoded = << >>
    /\ diag = << >>
    /\ wire = NoWire

\* the hardware at power-on: the line control register as the UART
\* initialisation leaves it
HwInit ==
    /\ uart = UartPowerOn(UART_LCR_8N2)
    /\ clk = ClkInit
    /\ mbox = MboxInit
    /\ gw = GwInit

Init ==
    /\ InitCommon
    /\ HwInit
    /\ script = << >>
    /\ script_pos = 0

(***************************************************************************)
(* Actions                                                                 *)
(***************************************************************************)
\* The MCU state the parser functions work on, and its write-back.
McuW == [p |-> mcu, d |-> drv, out |-> responses, n |-> n_dispatch,
         dec |-> decoded, diag |-> diag, link_ok |-> send_ok, reset |-> FALSE]

McuCommit(W, rest) ==
    /\ responses' = W.out
    /\ n_dispatch' = W.n
    /\ decoded' = W.dec
    /\ diag' = W.diag
    /\ IF W.reset
       THEN \* NVIC_SystemReset(): the image restarts from its initialisers
            /\ mcu' = McuMainInit
            /\ drv' = McuDrvInit
            /\ rx_pending' = << >>
            /\ wire' = NoWire
       ELSE /\ mcu' = W.p
            /\ drv' = W.d
            /\ rx_pending' = rest
            /\ wire' = wire

\* octets of msg the ring g_rx_buf takes when pending octets wait in it: one
\* slot of the RX_BUF_SIZE stays free, the octets that find no slot are dropped
RingTake(pending, msg) ==
    LET free == (RX_BUF_SIZE - 1) - Len(pending)
    IN  IF Len(msg) <= free THEN msg ELSE SubSeq(msg, 1, free)

\* rpmsg_rx_callback (MCU): a message from the host endpoint src arrives; its
\* octets are queued for the main loop and g_rx_src is set.  The host sends
\* its next command once the previous one has been served.
McuRecv(msg, src, ok) ==
    /\ fw = "mcu"
    /\ rx_pending = << >>
    /\ mcu' = [mcu EXCEPT !.g_rx_src = src]
    /\ rx_pending' = rx_pending \o RingTake(rx_pending, msg)
    /\ last_msg' = msg
    /\ send_ok' = ok
    /\ responses' = << >>
    /\ n_dispatch' = 0
    /\ decoded' = << >>
    /\ diag' = << >>
    /\ UNCHANGED << fw, drv, g_dmx, rx_buf, tx_pc, wire >>

\* main loop (MCU), step 1: the pending octets are taken one by one and
\* given to parse_rx_byte until none is left.
McuDrain ==
    /\ fw = "mcu"
    /\ rx_pending # << >>
    /\ McuCommit(McuParseBytes(McuW, rx_pending, 1), << >>)
    /\ UNCHANGED << fw, g_dmx, rx_buf, tx_pc, last_msg, send_ok, script, script_pos >>

\* one turn of that loop: one pending octet is taken and given to parse_rx_byte
McuParseByte ==
    /\ fw = "mcu"
    /\ rx_pending # << >>
    /\ McuCommit(parse_rx_byte(McuW, Head(rx_pending)), Tail(rx_pending))
    /\ UNCHANGED << fw, g_dmx, rx_buf, tx_pc, last_msg, send_ok, script, script_pos >>

\* main loop (MCU), step 2: dmx_poll(now), once no octet is pending.
\* due: now - g_last_frame_time >= dmx_get_frame_interval_us();
\* room: octets the TX FIFO accepts during this call.
dmx_poll(d, w, due, room) ==
    IF d.g_enabled = 0 THEN [d |-> d, wire |-> w]
    ELSE IF d.g_dmx_state = DMX_STATE_IDLE /\ ~due THEN [d |-> d, wire |-> w]
    ELSE LET started == d.g_dmx_state = DMX_STATE_IDLE
             idx     == IF started THEN 0 ELSE d.g_tx_idx
             w0      == IF started THEN NoWire ELSE w
             k       == IF room < DMX_FRAME_SIZE - idx THEN room ELSE DMX_FRAME_SIZE - idx
             w1      == [len |-> idx + k,
                         b   |-> Store(w0.b, idx..(idx + k - 1), LAMBDA i : At(d.g_dmx_frame, i))]
             done    == idx + k >= DMX_FRAME_SIZE
         IN  [d    |-> [d EXCEPT !.g_tx_idx = idx + k,
                                 !.g_dmx_state = IF done THEN DMX_STATE_IDLE ELSE DMX_STATE_TX_DATA,
                                 !.g_frame_count = IF done THEN @ + 1 ELSE @],
              wire |-> w1]

McuDmxPoll(due, room) ==
    /\ fw = "mcu"
    /\ rx_pending = << >>
    /\ drv.g_enabled # 0
    /\ drv.g_frame_count < MaxFrames
    /\ LET r == dmx_poll(drv, wire, due, room)
       IN  /\ drv' = r.d
           /\ wire' = r.wire
    /\ UNCHANGED << fw, mcu, g_dmx, rx_buf, tx_pc, rx_pending, last_msg, send_ok,
                    responses, n_dispatch, decoded, diag, script, script_pos >>

\* rpmsg_recv_thread (AP): rpmsg_queue_recv returns one message, which is
\* handed to parse_command.  wild: what a read past rx_buf yields.
ApRecv(msg, ok, wild) ==
    /\ fw = "ap"
    /\ Len(msg) <= RL_BUFFER_PAYLOAD_SIZE
    /\ LET rx == RxCopy(rx_buf, msg)
           A  == parse_command([g |-> g_dmx, rx |-> rx, wild |-> wild, out |-> << >>,
                                n |-> 0, link_ok |-> ok], Len(msg))
       IN  /\ rx_buf' = rx
           /\ g_dmx' = A.g
           /\ responses' = A.out
           /\ n_dispatch' = A.n
    /\ last_msg' = msg
    /\ send_ok' = ok
    /\ UNCHANGED << fw, mcu, drv, tx_pc, rx_pending, decoded, diag, wire >>

\* dmx_tx_thread_entry (AP), first half of one cycle: the thread finds the
\* engine enabled, waits for the UART and copies the universe to frame_buf
\* under the mutex.
ApTxSnapshot ==
    /\ fw = "ap"
    /\ tx_pc = "loop"
    /\ g_dmx.enabled
    /\ g_dmx.frame_count < MaxFrames
    /\ g_dmx' = [g_dmx EXCEPT !.frame_buf =
                    Store(g_dmx.frame_buf, 0..(DMX_FRAME_SIZE - 1),
                          LAMBDA i : IF i = 0 THEN 0 ELSE At(g_dmx.channels, i - 1))]
    /\ tx_pc' = "send"
    /\ UNCHANGED << fw, mcu, drv, rx_buf, rx_pending, last_msg, send_ok, responses,
                    n_dispatch, decoded, diag, wire, script, script_pos >>

\* dmx_tx_thread_entry (AP), second half: BREAK+MAB, the 513 octets of
\* frame_buf, frame_count++, the fps sample when one second has elapsed.
ApTxSend(sample) ==
    /\ fw = "ap"
    /\ tx_pc = "send"
    /\ wire' = [len |-> DMX_FRAME_SIZE, b |-> g_dmx.frame_buf]
    /\ g_dmx' = [g_dmx EXCEPT !.frame_count = @ + 1,
                              !.fps = IF sample = -1 THEN @ ELSE sample]
    /\ tx_pc' = "loop"
    /\ UNCHANGED << fw, mcu, drv, rx_buf, rx_pending, last_msg, send_ok, responses,
                    n_dispatch, decoded, diag, script, script_pos >>

(***************************************************************************)
(* Host traffic                                                            *)
(***************************************************************************)
\* the client's dmx_set_channels: payload = start_channel (LE) followed by the values
SetChannelsPkt(start_channel, values) ==
    build_cmd_packet(CMD_DMX_SET_CHANNELS, LE16(start_channel) \o values)

\* the client's dmx_set_timing: payload = refresh_hz, break_us, mab_us (LE)
SetTimingPkt(hz, brk, mab) ==
    build_cmd_packet(CMD_DMX_SET_TIMING, LE16(hz) \o LE16(brk) \o LE16(mab))

\* a packet whose last octet is not the XOR of the others
Corrupt(pkt) == [pkt EXCEPT ![Len(pkt)] = Xor8(pkt[Len(pkt)], 255)]

\* the same octets behind another first octet, the checksum adjusted
WithMagic(pkt, magic) ==
    LET body == [pkt EXCEPT ![1] = magic]
    IN  [body EXCEPT ![Len(pkt)] = dmx_calc_checksum(body, Len(pkt) - 1)]

PktEnable == build_cmd_packet(CMD_DMX_ENABLE, << >>)
PktDisable == build_cmd_packet(CMD_DMX_DISABLE, << >>)
PktBlackout == build_cmd_packet(CMD_DMX_BLACKOUT, << >>)
PktGetStatus == build_cmd_packet(CMD_DMX_GET_STATUS, << >>)
PktGetTiming == build_cmd_packet(CMD_DMX_GET_TIMING, << >>)

\* well-formed packets of the mixed traffic
GoodMsgs ==
    { PktEnable, PktDisable, PktBlackout, PktGetStatus, PktGetTiming,
      SetChannelsPkt(0, << 255 >>),
      SetChannelsPkt(511, << 127 >>),
      SetChannelsPkt(511, << 1, 2 >>),
      SetChannelsPkt(512, << 1 >>),
      SetChannelsPkt(0, << >>),
      build_cmd_packet(9, << >>),
      build_cmd_packet(CMD_SYSTEM_RESET, SYSTEM_RESET_MAGIC) }

\* damaged ones: wrong checksum, wrong magic, two stray octets
BadMsgs ==
    { << 170, 3, 0, 0, 0 >>,
      Corrupt(SetChannelsPkt(0, << 255 >>)),
      WithMagic(PktEnable, 171),
      << 3, 0 >> }

MainMsgs == GoodMsgs \cup BadMsgs

\* The host writes msg to the tty endpoint; it reaches the firmware as one
\* rpmsg message.
Deliver(msg) ==
    \E ok \in BOOLEAN :
        \/ \E src \in SrcAddrs : McuRecv(msg, src, ok)
        \/ \E wild \in WildOctets : ApRecv(msg, ok, wild)

HostSend(msg) == Deliver(msg) /\ UNCHANGED << script, script_pos >>

HostSendMain == \E msg \in MainMsgs : HostSend(msg)

McuPoll == \E due \in BOOLEAN, room \in FifoRoom : McuDmxPoll(due, room)

ApTx == ApTxSnapshot \/ \E sample \in FpsSamples \cup {-1} : ApTxSend(sample)

\* Command service of both images: the host sends commands one at a time,
\* the image parses, dispatches and answers them.
Next ==
    \/ HostSendMain /\ UNCHANGED hwvars
    \/ McuDrain /\ UNCHANGED hwvars

Spec == Init /\ [][Next]_vars

\* The frame engine of both images under the commands that drive it.
TxMsgs == { PktEnable, PktDisable, PktBlackout, SetChannelsPkt(0, << 255 >>),
            SetChannelsPkt(511, << 127 >>), SetTimingPkt(0, 200, 0) }

HostSendTx == \E msg \in TxMsgs : HostSend(msg)

NextTx ==
    \/ HostSendTx /\ UNCHANGED hwvars
    \/ McuDrain /\ UNCHANGED hwvars
    \/ McuPoll /\ UNCHANGED hwvars
    \/ ApTx /\ UNCHANGED hwvars

SpecTx == Init /\ [][NextTx]_vars

(***************************************************************************)
(* Command service: one response per dispatched packet                     *)
(***************************************************************************)
\* C1: while the link accepts what is sent, every call of the dispatcher
\* (handle_complete_packet on the MCU, parse_command on the AP) made for the
\* current message has put exactly one response packet on the link by the
\* time it is over, whatever the opcode and whatever the validation outcome.
C1_OneResponsePerDispatch ==
    send_ok => /\ Len(responses) = n_dispatch
               /\ \A i \in 1..Len(responses) :
                     /\ responses[i][1] = DMX_MAGIC_RESP
                     /\ dmx_verify_checksum(responses[i], Len(responses[i]))

\* a range-rejected SET_CHANNELS has been dispatched and answered on the AP
C1_Witness ==
    /\ fw = "ap"
    /\ send_ok
    /\ last_msg = SetChannelsPkt(511, << 1, 2 >>)
    /\ n_dispatch = 1
    /\ responses = << ResponsePacket(STATUS_ERROR, << >>) >>

\* msg is framed as a command packet (magic, opcode, length, that many
\* payload octets, one more octet) and its last octet is not the XOR of the
\* others
BadSumPacket(msg) ==
    /\ Len(msg) >= 5
    /\ msg[1] = DMX_MAGIC_CMD
    /\ Len(msg) = 5 + msg[3] + 256 * msg[4]
    /\ msg[Len(msg)] # dmx_calc_checksum(msg, Len(msg) - 1)

\* C4: a command packet whose last octet is not the XOR of the octets before
\* it is answered with STATUS_INVALID_CHECKSUM (0x02) and nothing else, and
\* the enabled flag, frame_count, the three timing values and the 512 slots
\* are the same after it as before, on either image.
\* the packets of the mixed traffic that are so damaged
BadSumMsgs == { msg \in MainMsgs : BadSumPacket(msg) }

C4_BadChecksumRejected ==
    [][ \A msg \in BadSumMsgs :
          /\ (fw = "mcu" /\ rx_pending = msg /\ McuDrain) =>
                /\ send_ok => responses' = << ResponsePacket(STATUS_INVALID_CHECKSUM, << >>) >>
                /\ drv'.g_enabled = drv.g_enabled
                /\ drv'.g_frame_count = drv.g_frame_count
                /\ mcu_dmx_get_timing(drv') = mcu_dmx_get_timing(drv)
                /\ \A i \in 0..DMX_UNIVERSE_SIZE : At(drv'.g_dmx_frame, i) = At(drv.g_dmx_frame, i)
          /\ (fw = "ap" /\ last_msg' = msg
                /\ \E ok \in BOOLEAN, wild \in WildOctets : ApRecv(msg, ok, wild)) =>
                /\ send_ok' => responses' = << ResponsePacket(STATUS_INVALID_CHECKSUM, << >>) >>
                /\ g_dmx'.enabled = g_dmx.enabled
                /\ g_dmx'.frame_count = g_dmx.frame_count
                /\ ap_dmx_get_timing(g_dmx') = ap_dmx_get_timing(g_dmx)
                /\ \A i \in 0..(DMX_UNIVERSE_SIZE - 1) : At(g_dmx'.channels, i) = At(g_dmx.channels, i)
      ]_vars

\* the example packet AA 03 00 00 00 has been answered and the engine is
\* still disabled
C4_Witness ==
    /\ fw = "mcu"
    /\ last_msg = << 170, 3, 0, 0, 0 >>
    /\ rx_pending = << >>
    /\ n_dispatch = 1
    /\ responses = << ResponsePacket(STATUS_INVALID_CHECKSUM, << >>) >>
    /\ drv.g_enabled = 0

(***************************************************************************)
(* The byte-wise decoder of the MCU under encoded packets and damaged      *)
(* streams                                                                 *)
(***************************************************************************)
\* opcodes the client encodes: the seven DMX commands, the reset, an unknown one
CodecOpcodes == { CMD_DMX_SET_CHANNELS, CMD_DMX_GET_STATUS, CMD_DMX_ENABLE, CMD_DMX_DISABLE,
                  CMD_DMX_BLACKOUT, CMD_DMX_SET_TIMING, CMD_DMX_GET_TIMING, CMD_SYSTEM_RESET, 9 }

\* payload lengths: the short ones, the two around the parser's limit, the
\* protocol's maximum
CodecLens == { 0, 1, SIZEOF_dmx_timing_t, CMD_BUF_SIZE - 5, CMD_BUF_SIZE - 4, DMX_MAX_PAYLOAD }

\* a payload of n octets
CodecPayload(n) == [i \in 1..n |-> (7 * i + 1) % 256]

\* streams that are no encoded packet
DamagedStreams ==
    { << 0 >>,
      << DMX_MAGIC_RESP, 0, 0, 0, DMX_MAGIC_RESP >>,
      << 0 >> \o PktEnable,
      Corrupt(PktEnable),
      Corrupt(PktEnable) \o PktEnable,
      Corrupt(SetChannelsPkt(0, << 255 >>)),
      << DMX_MAGIC_CMD, CMD_DMX_SET_CHANNELS, 1, 4 >>,
      << DMX_MAGIC_CMD, CMD_DMX_SET_CHANNELS, 1, 4 >> \o PktEnable,
      << DMX_MAGIC_CMD, CMD_DMX_SET_CHANNELS, 255, 255 >> }

CodecStreams ==
    { build_cmd_packet(cmd, CodecPayload(n)) : cmd \in CodecOpcodes, n \in CodecLens }
    \cup DamagedStreams

\* The octets of stream reach the main loop in order, from power-on, however
\* the link has cut them into messages.
CodecFeed(stream, src) ==
    /\ fw = "mcu"
    /\ last_msg = << >>
    /\ rx_pending = << >>
    /\ mcu' = [mcu EXCEPT !.g_rx_src = src]
    /\ rx_pending' = stream
    /\ last_msg' = stream
    /\ send_ok' = TRUE
    /\ UNCHANGED << fw, drv, g_dmx, rx_buf, tx_pc, responses, n_dispatch,
                    decoded, diag, wire, script, script_pos >>

HostFeed == \E stream \in CodecStreams, src \in SrcAddrs : CodecFeed(stream, src)

NextCodec ==
    \/ HostFeed /\ UNCHANGED hwvars
    \/ McuParseByte /\ UNCHANGED hwvars

SpecCodec == Init /\ [][NextCodec]_vars

\* C2: for every opcode and every payload length 0..1024, the octets
\* build_cmd_packet produces, given one by one to parse_rx_byte from Idle,
\* yield exactly one validated packet with the same opcode, length and
\* payload, and leave the parser in Idle.
C2_RoundTrip ==
    (fw = "mcu" /\ last_msg # << >> /\ rx_pending = << >>) =>
        \A cmd \in CodecOpcodes, n \in CodecLens :
            last_msg = build_cmd_packet(cmd, CodecPayload(n)) =>
                /\ decoded = << [cmd |-> cmd, payload_len |-> n, payload |-> CodecPayload(n)] >>
                /\ mcu.g_parse_state = PARSE_IDLE

\* C3: a step of the byte-wise decoder returns to Idle and reports BadMagic
\* on an octet other than the magic in Idle, OverLength on a declared
\* payload length above 1024, BadChecksum on a checksum octet that is not
\* the XOR of the octets before it; a declared length of 1024 or less is
\* not rejected as over-length.
C3_TypedErrors ==
    [][ (fw = "mcu" /\ rx_pending # << >> /\ rx_pending' = Tail(rx_pending)) =>
            LET byte     == Head(rx_pending)
                st       == mcu.g_parse_state
                declared == mcu.g_cmd_payload_len + 256 * byte
                sum      == dmx_calc_checksum(BufSeq(mcu.g_cmd_buf, mcu.g_cmd_idx), mcu.g_cmd_idx)
            IN  /\ (st = PARSE_IDLE /\ byte # DMX_MAGIC_CMD) =>
                       /\ mcu'.g_parse_state = PARSE_IDLE
                       /\ diag' = Append(diag, "BadMagic")
                /\ (st = PARSE_LEN_HI /\ declared > DMX_MAX_PAYLOAD) =>
                       /\ mcu'.g_parse_state = PARSE_IDLE
                       /\ diag' = Append(diag, "OverLength")
                /\ (st = PARSE_LEN_HI /\ declared <= DMX_MAX_PAYLOAD) =>
                       /\ mcu'.g_parse_state \in {PARSE_DATA, PARSE_CHECKSUM}
                       /\ diag' = diag
                /\ (st = PARSE_CHECKSUM /\ byte # sum) =>
                       /\ mcu'.g_parse_state = PARSE_IDLE
                       /\ diag' = Append(diag, "BadChecksum")
      ]_vars

(***************************************************************************)
(* Scenario S1: enable, then one channel, from power-on                    *)
(***************************************************************************)
\* the two packets as the scenario writes them, and with the XOR of the
\* second packet's octets as its last octet
S1AsWritten == << << 170, 3, 0, 0, 169 >>, << 170, 1, 3, 0, 0, 0, 255, 253 >> >>
S1Checksummed == << << 170, 3, 0, 0, 169 >>, << 170, 1, 3, 0, 0, 0, 255, 87 >> >>

InitS1 ==
    /\ InitCommon
    /\ HwInit
    /\ script \in { S1AsWritten, S1Checksummed }
    /\ script_pos = 0

\* the host sends the next packet of the session once the previous one has
\* been served
ScriptSend ==
    /\ script_pos < Len(script)
    /\ Deliver(script[script_pos + 1])
    /\ script_pos' = script_pos + 1
    /\ UNCHANGED script

NextS1 ==
    \/ ScriptSend /\ UNCHANGED hwvars
    \/ McuDrain /\ UNCHANGED hwvars
    \/ McuPoll /\ UNCHANGED hwvars
    \/ ApTx /\ UNCHANGED hwvars

SpecS1 == InitS1 /\ [][NextS1]_vars

\* the state the image serves commands in: nothing pending on the MCU
Served == fw = "mcu" => rx_pending = << >>

\* enabled flag and slots of whichever image runs
EngineEnabled == IF fw = "mcu" THEN drv.g_enabled # 0 ELSE g_dmx.enabled
Slot(k) == IF fw = "mcu" THEN At(drv.g_dmx_frame, k) ELSE At(g_dmx.channels, k - 1)

\* the session s gets BB 00 00 00 BB for each of its two packets and ends
\* with the engine enabled, slot 1 at 0xFF, slots 2..512 at 0
S1Holds(s) ==
    (script = s /\ Served) =>
        /\ (script_pos >= 1 /\ send_ok) => responses = << << 187, 0, 0, 0, 187 >> >>
        /\ script_pos = 2 =>
              /\ EngineEnabled
              /\ Slot(1) = 255
              /\ \A k \in 2..DMX_UNIVERSE_SIZE : Slot(k) = 0

\* C5 as stated: from power-on, AA 03 00 00 A9 is answered BB 00 00 00 BB and
\* AA 01 03 00 00 00 FF FD is answered BB 00 00 00 BB, after which the engine
\* is enabled, slot 1 holds 0xFF and every other slot 0x00.
C5_S1_AsWritten == S1Holds(S1AsWritten)

\* C5 amended: the same with AA 01 03 00 00 00 FF 57 as the second packet,
\* 0x57 being the XOR of its first seven octets.
C5_S1_Checksummed == S1Holds(S1Checksummed)

\* both packets of the amended session have been served
C5_Witness ==
    /\ script = S1Checksummed
    /\ script_pos = 2
    /\ Served
    /\ send_ok
    /\ responses = << << 187, 0, 0, 0, 187 >> >>
    /\ EngineEnabled
    /\ Slot(1) = 255

(***************************************************************************)
(* SET_CHANNELS over starts and value runs at both ends of the universe    *)
(***************************************************************************)
ChStarts == { 0, DMX_UNIVERSE_SIZE - 2, DMX_UNIVERSE_SIZE - 1 }
ChValues == { << >>, << 255 >>, << 1, 2 >> }

\* the SET_CHANNELS requests of this traffic: start, values, encoded packet
ChCases ==
    { [start |-> s, values |-> v, msg |-> SetChannelsPkt(s, v)] : s \in ChStarts, v \in ChValues }

HostSendCh == \E c \in ChCases : HostSend(c.msg)

NextCh ==
    \/ HostSendCh /\ UNCHANGED hwvars
    \/ McuDrain /\ UNCHANGED hwvars

SpecCh == Init /\ [][NextCh]_vars

\* the engine state of whichever image runs, but for the slots
EngineRest ==
    IF fw = "mcu"
    THEN << drv.g_enabled # 0, drv.g_frame_count, drv.g_refresh_hz, drv.g_break_us, drv.g_mab_us,
            At(drv.g_dmx_frame, 0) >>
    ELSE << g_dmx.enabled, g_dmx.frame_count, g_dmx.refresh_hz, g_dmx.break_us, g_dmx.mab_us, 0 >>

\* msg is dispatched by this step
Dispatches(msg) ==
    \/ fw = "mcu" /\ rx_pending = msg /\ McuDrain
    \/ fw = "ap" /\ last_msg' = msg /\ \E ok \in BOOLEAN, wild \in WildOctets : ApRecv(msg, ok, wild)

\* C6: a SET_CHANNELS request with start < 512 and start + count <= 512
\* leaves values[i] in slot start + i (frame octet start + 1 + i, slots
\* counted from 0) for every i < count, and every other slot, the start
\* code, the enabled flag, frame_count and the timing values as they were.
C6_SetChannelsWrites ==
    [][ \A c \in ChCases :
          (c.start < DMX_UNIVERSE_SIZE /\ c.start + Len(c.values) <= DMX_UNIVERSE_SIZE
              /\ Dispatches(c.msg)) =>
                /\ \A k \in 1..DMX_UNIVERSE_SIZE :
                      Slot(k)' = IF k >= c.start + 1 /\ k <= c.start + Len(c.values)
                                 THEN c.values[k - c.start]
                                 ELSE Slot(k)
                /\ EngineRest' = EngineRest
      ]_vars

\* two values have been written to the last two slots over others, the
\* first slots keeping what an earlier request left there
C6_Witness ==
    /\ last_msg = SetChannelsPkt(DMX_UNIVERSE_SIZE - 2, << 1, 2 >>)
    /\ Served
    /\ Slot(DMX_UNIVERSE_SIZE - 1) = 1
    /\ Slot(DMX_UNIVERSE_SIZE) = 2
    /\ Slot(1) = 255

(***************************************************************************)
(* SET_TIMING and GET_TIMING over values at and around the range limits    *)
(***************************************************************************)
\* requests that change one field, and requests that change several
TimingTriples ==
    { << hz, 0, 0 >> : hz \in { 1, 30, DMX_REFRESH_HZ_MAX + 1 } }
    \cup { << 0, brk, 0 >> : brk \in { DMX_BREAK_US_MIN - 1, DMX_BREAK_US_MIN, 200,
                                       DMX_BREAK_US_MAX + 1 } }
    \cup { << 0, 0, mab >> : mab \in { DMX_MAB_US_MIN - 1, DMX_MAB_US_MAX, DMX_MAB_US_MAX + 1 } }
    \cup { << 0, 0, 0 >>, << 30, 87, 0 >>, << 30, 200, 7 >>, << 1, 1000, 8 >> }

\* the SET_TIMING requests of this traffic: the three values, the encoded packet
TimingCases ==
    { [hz |-> t[1], brk |-> t[2], mab |-> t[3], msg |-> SetTimingPkt(t[1], t[2], t[3])] :
        t \in TimingTriples }

TimingMsgs ==
    { c.msg : c \in TimingCases } \cup { PktGetTiming, SetChannelsPkt(511, << 1, 2 >>) }

HostSendTiming == \E msg \in TimingMsgs : HostSend(msg)

NextTiming ==
    \/ HostSendTiming /\ UNCHANGED hwvars
    \/ McuDrain /\ UNCHANGED hwvars

SpecTiming == Init /\ [][NextTiming]_vars

\* the timing values of whichever image runs
Timing ==
    IF fw = "mcu" THEN << drv.g_refresh_hz, drv.g_break_us, drv.g_mab_us >>
    ELSE << g_dmx.refresh_hz, g_dmx.break_us, g_dmx.mab_us >>

\* a field of a SET_TIMING request is acceptable: zero, or within its range
HzOk(hz) == hz = 0 \/ (hz >= DMX_REFRESH_HZ_MIN /\ hz <= DMX_REFRESH_HZ_MAX)
BreakOk(brk) == brk = 0 \/ (brk >= DMX_BREAK_US_MIN /\ brk <= DMX_BREAK_US_MAX)
MabOk(mab) == mab = 0 \/ (mab >= DMX_MAB_US_MIN /\ mab <= DMX_MAB_US_MAX)

\* the 512 slots of whichever image runs
Universe == [k \in 1..DMX_UNIVERSE_SIZE |-> Slot(k)]

\* C7: a command rejected for range, SET_CHANNELS with start + count > 512 or
\* SET_TIMING with a non-zero field outside its range, is answered with
\* STATUS_ERROR and leaves the 512 slots and the three timing values as
\* they were before it, whichever field is out of range.
C7_RangeRejectLeavesState ==
    [][ /\ \A c \in TimingCases :
              (~(HzOk(c.hz) /\ BreakOk(c.brk) /\ MabOk(c.mab)) /\ Dispatches(c.msg)) =>
                  /\ send_ok' => responses' = << ResponsePacket(STATUS_ERROR, << >>) >>
                  /\ Timing' = Timing
                  /\ Universe' = Universe
        /\ Dispatches(SetChannelsPkt(511, << 1, 2 >>)) =>
              /\ send_ok' => responses' = << ResponsePacket(STATUS_ERROR, << >>) >>
              /\ Timing' = Timing
              /\ Universe' = Universe
      ]_vars

\* C8: SET_TIMING with every non-zero field in range leaves, field by field,
\* the given value where it is non-zero and the previous value where it is
\* zero, and GET_TIMING returns the three values as they stand.
C8_SetTimingThenGet ==
    [][ /\ \A c \in TimingCases :
              (HzOk(c.hz) /\ BreakOk(c.brk) /\ MabOk(c.mab) /\ Dispatches(c.msg)) =>
                  Timing' = << IF c.hz # 0 THEN c.hz ELSE Timing[1],
                               IF c.brk # 0 THEN c.brk ELSE Timing[2],
                               IF c.mab # 0 THEN c.mab ELSE Timing[3] >>
        /\ Dispatches(PktGetTiming) =>
              /\ Timing' = Timing
              /\ send_ok' => responses' = << ResponsePacket(STATUS_OK,
                                 LE16(Timing[1]) \o LE16(Timing[2]) \o LE16(Timing[3])) >>
      ]_vars

\* after SET_TIMING(0, 200, 0) on the defaults, GET_TIMING has returned
\* {44, 200, 12}
C8_Witness ==
    /\ last_msg = PktGetTiming
    /\ Served
    /\ send_ok
    /\ Timing = << 44, 200, 12 >>
    /\ responses = << ResponsePacket(STATUS_OK, << 44, 0, 200, 0, 12, 0 >>) >>

\* C9: in every state of either image refresh_hz is in 1..44, break_us in
\* 88..1000 and mab_us in 8..100.
C9_TimingInRange ==
    /\ drv.g_refresh_hz \in 1..44   /\ g_dmx.refresh_hz \in 1..44
    /\ drv.g_break_us \in 88..1000  /\ g_dmx.break_us \in 88..1000
    /\ drv.g_mab_us \in 8..100      /\ g_dmx.mab_us \in 8..100

(***************************************************************************)
(* The start code                                                          *)
(***************************************************************************)
\* C10: octet 0 of the frame, the start code, is 0x00 in every state and in
\* every frame put on the line, whatever SET_CHANNELS, BLACKOUT, ENABLE,
\* DISABLE and SET_TIMING commands have been served; BLACKOUT leaves all
\* 512 slots at 0 and the start code at 0.
C10_StartCodeZero ==
    /\ [](/\ At(drv.g_dmx_frame, 0) = 0
          /\ At(g_dmx.frame_buf, 0) = 0
          /\ wire.len >= 1 => At(wire.b, 0) = 0)
    /\ [][ Dispatches(PktBlackout) =>
              /\ \A k \in 1..DMX_UNIVERSE_SIZE : Slot(k)' = 0
              /\ At(drv'.g_dmx_frame, 0) = 0
              /\ At(g_dmx'.frame_buf, 0) = 0 ]_vars

\* BLACKOUT has been served after a whole frame with slot 1 at 0xFF went out
C10_Witness ==
    /\ last_msg = PktBlackout
    /\ Served
    /\ wire.len = DMX_FRAME_SIZE
    /\ At(wire.b, 0) = 0
    /\ At(wire.b, 1) = 255
    /\ Slot(1) = 0

(***************************************************************************)
(* Frames on the line                                                      *)
(***************************************************************************)
\* a frame has been started (BREAK issued) and not all of its 513 octets
\* have been handed to the UART
FrameInFlight ==
    IF fw = "mcu" THEN drv.g_dmx_state = DMX_STATE_TX_DATA ELSE tx_pc = "send"

\* the buffer the transmitter takes the octets of the frame from, and the
\* index of the next octet it will take
TxBuffer == IF fw = "mcu" THEN drv.g_dmx_frame ELSE g_dmx.frame_buf
TxNext == IF fw = "mcu" THEN drv.g_tx_idx ELSE 0

\* C11: a SET_CHANNELS or BLACKOUT request served while a frame is in flight
\* (after its snapshot point: during BREAK, MAB or the data octets) changes
\* no octet of that frame: the octets still to be sent and the octets
\* already on the line stay as they were.
C11_FrameIsSnapshot ==
    [][ \A msg \in { PktBlackout, SetChannelsPkt(0, << 255 >>), SetChannelsPkt(511, << 127 >>) } :
          (FrameInFlight /\ Dispatches(msg)) =>
              /\ \A i \in TxNext..(DMX_FRAME_SIZE - 1) : At(TxBuffer', i) = At(TxBuffer, i)
              /\ wire' = wire ]_vars

\* C12: DISABLE takes effect at a frame boundary.  A frame in flight goes on
\* whatever the enabled flag: the transmitter's next step with room in the
\* FIFO hands further octets of it to the UART.  With the engine disabled
\* and no frame in flight, the transmitter starts no frame.
C12_DisableAtFrameBoundary ==
    /\ (fw = "mcu" /\ FrameInFlight) =>
           LET r == dmx_poll(drv, wire, TRUE, TX_FIFO_DEPTH)
           IN  r.wire.len > wire.len
    /\ (fw = "ap" /\ FrameInFlight) => ENABLED ApTx
    /\ (fw = "mcu" /\ ~FrameInFlight /\ drv.g_enabled = 0) =>
           \A due \in BOOLEAN, room \in FifoRoom :
               dmx_poll(drv, wire, due, room) = [d |-> drv, wire |-> wire]
    /\ (fw = "ap" /\ ~FrameInFlight /\ ~g_dmx.enabled) => ~ENABLED ApTxSnapshot

(***************************************************************************)
(* The line: idle wait, BREAK and line control                             *)
(***************************************************************************)
\* contents the line control register may hold when the driver first uses
\* the UART: 8N2, and 8N2 with the BREAK bit latched
LcrPrior == { UART_LCR_8N2, UART_LCR_8N2 + UART_LCR_BREAK }

\* what the transmitter does while uart_wait_idle polls
WaitOutcomes == { "retires", "stays" }

InitLine ==
    /\ InitCommon
    /\ \E lcr \in LcrPrior : uart = UartPowerOn(lcr)
    /\ clk = ClkInit
    /\ mbox = MboxInit
    /\ gw = GwInit
    /\ script = << >>
    /\ script_pos = 0

\* dmx_poll (MCU) with the UART it drives: when a frame is due in
\* DMX_STATE_IDLE, uart_wait_idle and send_break_mab; then the octets the
\* FIFO takes.  The FIFO has no room only while the transmitter is busy.
McuLinePoll(due, room, during) ==
    /\ McuDmxPoll(due, room)
    /\ LET starts == drv.g_dmx_state = DMX_STATE_IDLE /\ due
           u1     == IF starts THEN mcu_send_break_mab(mcu_uart_wait_idle(uart, during)) ELSE uart
           from   == IF starts THEN 0 ELSE drv.g_tx_idx
       IN  /\ room = 0 => u1.busy
           /\ uart' = [u1 EXCEPT !.busy = @ \/ drv'.g_tx_idx > from]
    /\ UNCHANGED << clk, mbox, gw >>

McuLine == \E due \in BOOLEAN, room \in FifoRoom, during \in WaitOutcomes : McuLinePoll(due, room, during)

\* dmx_tx_thread_entry (AP), first half, with the UART: uart_wait_idle, then
\* the snapshot
ApLineSnapshot(during) ==
    /\ ApTxSnapshot
    /\ uart' = ap_uart_wait_idle(uart, during)
    /\ UNCHANGED << clk, mbox, gw >>

\* dmx_tx_thread_entry (AP), second half, with the UART: uart_send_break_mab,
\* then uart_tx_poll
ApLineSend(sample) ==
    /\ ApTxSend(sample)
    /\ uart' = ap_uart_tx_poll(ap_uart_send_break_mab(uart))
    /\ UNCHANGED << clk, mbox, gw >>

ApLine ==
    \/ \E during \in WaitOutcomes : ApLineSnapshot(during)
    \/ \E sample \in FpsSamples \cup {-1} : ApLineSend(sample)

\* the transmitter shifts out the last octet it holds
UartRetire ==
    /\ uart.busy
    /\ uart' = [uart EXCEPT !.busy = FALSE]
    /\ UNCHANGED << fw, mcu, drv, g_dmx, rx_buf, tx_pc, rx_pending, last_msg, send_ok,
                    responses, n_dispatch, decoded, diag, wire, script, script_pos, clk, mbox, gw >>

LineMsgs == { PktEnable, PktDisable }

HostSendLine == \E msg \in LineMsgs : HostSend(msg)

NextLine ==
    \/ HostSendLine /\ UNCHANGED hwvars
    \/ McuDrain /\ UNCHANGED hwvars
    \/ McuLine
    \/ ApLine
    \/ UartRetire

SpecLine == InitLine /\ [][NextLine]_vars

\* this step starts a frame: the idle wait and the BREAK are in it
FrameStarts == ~FrameInFlight /\ FrameInFlight'

\* the error count of the engine
ErrorCount == IF fw = "ap" THEN uart.errors ELSE 0

\* C13: a BREAK is asserted only when the TX FIFO is empty and the
\* transmitter not busy: no BREAK has found the transmitter still holding
\* octets of the frame before.
C13_BreakOnIdleLine == uart.brk # "busy"

\* C14: an idle wait that ends by timeout adds one to the error count, and
\* the frame goes on: its BREAK is issued in the same cycle.
C14_TimeoutCounted ==
    [][ (FrameStarts /\ uart'.wait = "timeout") =>
            /\ ErrorCount' = ErrorCount + 1
            /\ uart'.brk # "none" ]_vars

\* C15: whatever the line control register held before, after a BREAK/MAB
\* sequence it holds exactly the 8N2 value, BREAK bit clear, and during the
\* BREAK it held 8N2 with the BREAK bit set.
C15_AbsoluteLcr ==
    uart.brk # "none" =>
        /\ uart.lcr = UART_LCR_8N2
        /\ uart.brk_lcr = UART_LCR_8N2 + UART_LCR_BREAK

(***************************************************************************)
(* Frame pacing and the measured rate                                      *)
(***************************************************************************)
\* frames started in one run
PaceFrames == 3
\* refresh rates the host sets before it enables the engine
PaceRates == { 44, 25, 1 }
\* microseconds one iteration of the MCU's main loop may take between two
\* calls of dmx_poll
LoopUs == { 16 * OCTET_US, 64 * OCTET_US }
\* microseconds the AP's transmit thread may lose between two cycles
LagUs == { 0, 700 }

InitPace ==
    /\ InitCommon
    /\ HwInit
    /\ script \in { << SetTimingPkt(r, 0, 0), PktEnable >> : r \in PaceRates }
    /\ script_pos = 0

\* void dmx_enable(void) (AP), the part that restarts the rate measurement:
\* last_fps_time = rt_tick_get(), last_frame_count = 0
ap_dmx_enable_fps(c) == [c EXCEPT !.last_fps_time = Tick(c.now), !.last_frame_count = 0]

\* the host sends the next command of its session
PaceSend ==
    /\ ScriptSend
    /\ clk' = IF fw = "ap" /\ ~g_dmx.enabled /\ g_dmx'.enabled THEN ap_dmx_enable_fps(clk) ELSE clk
    /\ UNCHANGED << uart, mbox, gw >>

\* main loop (MCU), one iteration with nothing to parse, dt microseconds
\* after the one before: now = get_time_us(), dmx_poll(now).  The
\* transmitter retires one octet every OCTET_US; the FIFO takes what it has
\* room for; uart_wait_idle lasts until the transmitter is idle and
\* send_break_mab lasts g_break_us + g_mab_us.
McuPaceLoop(dt) ==
    /\ fw = "mcu"
    /\ rx_pending = << >>
    /\ drv.g_enabled # 0
    /\ clk.frames < PaceFrames \/ drv.g_dmx_state = DMX_STATE_TX_DATA
    /\ LET now     == clk.now + dt
           retired == dt \div OCTET_US
           held1   == IF clk.held > retired THEN clk.held - retired ELSE 0
           due     == now - clk.g_last_frame_time >= dmx_get_frame_interval_us(drv)
           starts  == drv.g_dmx_state = DMX_STATE_IDLE /\ due
           wait_us == IF starts THEN held1 * OCTET_US ELSE 0
           brk_us  == IF starts THEN drv.g_break_us + drv.g_mab_us ELSE 0
           held2   == IF starts THEN 0 ELSE held1
           r       == dmx_poll(drv, wire, due, TX_FIFO_DEPTH - held2)
           from    == IF starts THEN 0 ELSE drv.g_tx_idx
           held3   == held2 + (r.d.g_tx_idx - from)
           u1      == [uart EXCEPT !.busy = held1 > 0]
           u2      == IF starts THEN mcu_send_break_mab(mcu_uart_wait_idle(u1, "retires")) ELSE u1
       IN  /\ drv' = r.d
           /\ wire' = r.wire
           /\ uart' = [u2 EXCEPT !.busy = held3 > 0]
           /\ clk' = [clk EXCEPT
                        !.now = now + wait_us + brk_us,
                        !.held = held3,
                        !.g_last_frame_time = IF r.d.g_frame_count # drv.g_frame_count THEN now ELSE @,
                        !.t_break = IF starts THEN now + wait_us ELSE @,
                        !.period = IF starts /\ clk.frames > 0 THEN now + wait_us - clk.t_break ELSE @,
                        !.frames = IF starts THEN @ + 1 ELSE @]
    /\ UNCHANGED << fw, mcu, g_dmx, rx_buf, tx_pc, rx_pending, last_msg, send_ok,
                    responses, n_dispatch, decoded, diag, script, script_pos, mbox, gw >>

McuPace == \E dt \in LoopUs : McuPaceLoop(dt)

\* dmx_tx_thread_entry (AP), one cycle with the engine enabled, lag
\* microseconds after the one before: frame_start, uart_wait_idle, the
\* snapshot, BREAK and MAB, the 513 octets, frame_count++, the rate
\* measurement and the pacing delay.
ApPaceFrame(lag) ==
    /\ fw = "ap"
    /\ tx_pc = "loop"
    /\ g_dmx.enabled
    /\ clk.frames < PaceFrames
    /\ LET t0          == clk.now + lag
           frame_start == Tick(t0)
           frame_buf   == Store(g_dmx.frame_buf, 0..(DMX_FRAME_SIZE - 1),
                                LAMBDA i : IF i = 0 THEN 0 ELSE At(g_dmx.channels, i - 1))
           t1          == t0 + g_dmx.break_us + g_dmx.mab_us
           t2          == t1 + DMX_FRAME_SIZE * OCTET_US
           frame_count == g_dmx.frame_count + 1
           now         == Tick(t2)
           window      == now - clk.last_fps_time >= RT_TICK_PER_SECOND
           frames_sent == frame_count - clk.last_frame_count
           time_ms     == ((now - clk.last_fps_time) * 1000) \div RT_TICK_PER_SECOND
           period_us   == 1000000 \div g_dmx.refresh_hz
           elapsed_us  == ((Tick(t2) - frame_start) * 1000000) \div RT_TICK_PER_SECOND
           delay       == IF g_dmx.refresh_hz < DMX_REFRESH_HZ_MAX /\ elapsed_us < period_us
                          THEN period_us - elapsed_us ELSE 0
       IN  /\ g_dmx' = [g_dmx EXCEPT
                          !.frame_buf = frame_buf,
                          !.frame_count = frame_count,
                          !.fps = IF window /\ time_ms > 0
                                  THEN (frames_sent * 100000) \div time_ms ELSE @]
           /\ wire' = [len |-> DMX_FRAME_SIZE, b |-> frame_buf]
           /\ uart' = ap_uart_tx_poll(ap_uart_send_break_mab(ap_uart_wait_idle(uart, "retires")))
           /\ clk' = [clk EXCEPT
                        !.now = t2 + delay,
                        !.last_fps_time = IF window THEN now ELSE @,
                        !.last_frame_count = IF window THEN frame_count ELSE @,
                        !.t_break = t0,
                        !.period = IF clk.frames > 0 THEN t0 - clk.t_break ELSE @,
                        !.frames = @ + 1]
    /\ UNCHANGED << fw, mcu, drv, rx_buf, tx_pc, rx_pending, last_msg, send_ok,
                    responses, n_dispatch, decoded, diag, script, script_pos, mbox, gw >>

ApPace == \E lag \in LagUs : ApPaceFrame(lag)

NextPace ==
    \/ PaceSend
    \/ McuDrain /\ UNCHANGED hwvars
    \/ McuPace
    \/ ApPace

SpecPace == InitPace /\ [][NextPace]_vars

\* the refresh rate and the frame count of whichever image runs
RefreshHz == IF fw = "mcu" THEN drv.g_refresh_hz ELSE g_dmx.refresh_hz
FrameCount == IF fw = "mcu" THEN drv.g_frame_count ELSE g_dmx.frame_count

\* the fps x 100 that GET_STATUS reports in this state (handle_cmd_get_status
\* of either image)
StatusFps ==
    IF fw = "mcu" THEN mcu_dmx_get_status(drv).refresh_hz * 100
    ELSE ap_dmx_get_status(g_dmx).fps

\* C16: with the engine enabled at refresh rate r, two successive frames
\* start one period 1/r apart within 5 %: the rate 1000000 / period lies
\* between 0.95 r and 1.05 r, also at r = 44.
C16_PacedAtRefreshRate ==
    (EngineEnabled /\ clk.period # 0) =>
        /\ 19 * RefreshHz * clk.period <= 20 * 1000000
        /\ 21 * RefreshHz * clk.period >= 20 * 1000000

\* C17: the fps x 100 that GET_STATUS reports is the measured rate: it
\* changes only when the transmitter, after a frame, finds that at least
\* one second has passed since the last measurement, and it is then the
\* frames sent in that window x 100000 / the milliseconds elapsed.
C17_FpsMeasured ==
    [][ StatusFps' # StatusFps =>
            LET ms == ((clk'.last_fps_time - clk.last_fps_time) * 1000) \div RT_TICK_PER_SECOND
            IN  /\ FrameCount' = FrameCount + 1
                /\ ms >= 1000
                /\ StatusFps' = ((FrameCount' - clk.last_frame_count) * 100000) \div ms ]_vars

(***************************************************************************)
(* The two images side by side                                             *)
(***************************************************************************)
\* commands with the opcodes 0x01..0x07
PairMsgs == { SetChannelsPkt(0, << 255 >>), SetChannelsPkt(511, << 1, 2 >>), SetChannelsPkt(0, << >>),
              PktGetStatus, PktEnable, PktDisable, PktBlackout,
              SetTimingPkt(30, 0, 0), SetTimingPkt(0, 0, 101), SetTimingPkt(0, 87, 0),
              PktGetTiming }

\* an MCU image with an AP image beside it
InitPair == Init /\ fw = "mcu"

\* The host gives the same command to both images.  The MCU queues its
\* octets (rpmsg_rx_callback) and its main loop parses them; the AP hands
\* the message to parse_command.  responses takes what the MCU answers,
\* then what the AP answers.
PairSend(msg, src) ==
    /\ rx_pending = << >>
    /\ LET W0 == [McuW EXCEPT !.p.g_rx_src = src, !.out = << >>, !.n = 0,
                              !.dec = << >>, !.diag = << >>, !.link_ok = TRUE]
           W  == McuParseBytes(W0, msg, 1)
           rx == RxCopy(rx_buf, msg)
           A  == parse_command([g |-> g_dmx, rx |-> rx, wild |-> 0, out |-> << >>,
                                n |-> 0, link_ok |-> TRUE], Len(msg))
       IN  /\ ~W.reset
           /\ mcu' = W.p
           /\ drv' = W.d
           /\ decoded' = W.dec
           /\ diag' = W.diag
           /\ g_dmx' = A.g
           /\ rx_buf' = rx
           /\ responses' = W.out \o A.out
           /\ n_dispatch' = W.n + A.n
    /\ last_msg' = msg
    /\ send_ok' = TRUE
    /\ UNCHANGED << fw, tx_pc, rx_pending, wire, script, script_pos, uart, clk, mbox, gw >>

HostSendPair == \E msg \in PairMsgs, src \in SrcAddrs : PairSend(msg, src)

NextPair == HostSendPair

SpecPair == InitPair /\ [][NextPair]_vars

\* the engine states of the two images agree: universe, timing values,
\* enabled flag, frame count
PairAgree ==
    /\ \A k \in 1..DMX_UNIVERSE_SIZE : At(drv.g_dmx_frame, k) = At(g_dmx.channels, k - 1)
    /\ << drv.g_refresh_hz, drv.g_break_us, drv.g_mab_us >>
         = << g_dmx.refresh_hz, g_dmx.break_us, g_dmx.mab_us >>
    /\ (drv.g_enabled # 0) = g_dmx.enabled
    /\ drv.g_frame_count = g_dmx.frame_count

\* C18: from equal engine states, a command with opcode 0x01..0x07 gets the
\* same response (status and payload) from both images and leaves their
\* engine states equal.
C18_SameProtocol ==
    [][ (PairAgree /\ last_msg' # last_msg) =>
            /\ Len(responses') = 2
            /\ responses'[1] = responses'[2]
            /\ PairAgree' ]_vars

(***************************************************************************)
(* The reset guard of the MCU image                                        *)
(***************************************************************************)
\* the image is back at its initialisers: NVIC_SystemReset() has run.  An
\* image that has served a message without a reset has g_rx_src set.
Restarted == mcu = McuMainInit /\ drv = McuDrvInit

PktReset(payload) == build_cmd_packet(CMD_SYSTEM_RESET, payload)

\* SYSTEM_RESET requests that the magic guard has to turn down: one octet of
\* the magic wrong, a payload one octet short, one octet long, and none
ResetRefused ==
    { PktReset(<< 239, 190, 173, 223 >>),
      PktReset(<< 239, 190, 173 >>),
      PktReset(<< 239, 190, 173, 222, 0 >>),
      PktReset(<< >>) }

ResetRequests == ResetRefused \cup { PktReset(SYSTEM_RESET_MAGIC) }

\* reset requests among commands that change the engine state
ResetMsgs ==
    ResetRequests \cup { PktEnable, SetChannelsPkt(0, << 255 >>), SetTimingPkt(30, 0, 0) }

InitReset == Init /\ fw = "mcu"

HostSendReset == \E msg \in ResetMsgs : HostSend(msg)

\* the MCU main loop between two commands: serve the ring, run dmx_poll
NextReset ==
    \/ HostSendReset /\ UNCHANGED hwvars
    \/ McuDrain /\ UNCHANGED hwvars
    \/ McuPoll /\ UNCHANGED hwvars

SpecReset == InitReset /\ [][NextReset]_vars

\* C19: on the MCU, SYSTEM_RESET resets the SoC only when its payload is
\* exactly the four octets of the magic; the OK response is out before the
\* reset and the engine is disabled.  With any other payload there is no
\* reset, the response is INVALID_LENGTH or ERROR and the engine state is
\* unchanged.  (Responses are looked at when the link took them.)
C19_ResetGuard ==
    [][ \A msg \in ResetRequests :
          (fw = "mcu" /\ rx_pending = msg /\ McuDrain) =>
              IF msg = PktReset(SYSTEM_RESET_MAGIC)
              THEN /\ Restarted'
                   /\ drv'.g_enabled = 0
                   /\ send_ok => responses' = << ResponsePacket(STATUS_OK, << >>) >>
              ELSE /\ ~Restarted'
                   /\ drv' = drv
                   /\ send_ok => responses' \in
                          { << ResponsePacket(STATUS_INVALID_LENGTH, << >>) >>,
                            << ResponsePacket(STATUS_ERROR, << >>) >> } ]_vars

\* the magic has reset an image whose engine was enabled with slot 1 at
\* 0xFF, and the OK response is out
C19_Witness ==
    /\ fw = "mcu"
    /\ last_msg = PktReset(SYSTEM_RESET_MAGIC)
    /\ Served
    /\ Restarted
    /\ responses = << ResponsePacket(STATUS_OK, << >>) >>

\* a refused request has left an enabled engine with slot 1 at 0xFF as it was
C19_RefusedWitness ==
    /\ fw = "mcu"
    /\ last_msg \in ResetRefused
    /\ Served
    /\ drv.g_enabled # 0
    /\ At(drv.g_dmx_frame, 1) = 255
    /\ responses # << >>

(***************************************************************************)
(* Mailbox doorbells from the host                                         *)
(***************************************************************************)
MaxMbox == 3

\* command words (link id in the low octet) and data words the host may write
MboxCmds == {0, 257}
MboxData == {RL_RPMSG_MAGIC, 0}

InitMbox == Init /\ fw = "mcu"

MboxOnly ==
    UNCHANGED << fw, mcu, drv, g_dmx, rx_buf, tx_pc, rx_pending, last_msg, send_ok,
                 responses, n_dispatch, decoded, diag, wire, script, script_pos, uart, clk, gw >>

\* The host writes a message to MBOX3 A2B channel 0 once the one before has
\* been taken.
HostRaise(cmd, data) ==
    /\ mbox.status = 0
    /\ Len(mbox.raised) < MaxMbox
    /\ mbox' = [mbox EXCEPT !.status = 1, !.CMD = cmd, !.DATA = data,
                            !.raised = Append(@, << cmd, data >>)]
    /\ MboxOnly

HostRaises == \E cmd \in MboxCmds, data \in MboxData : HostRaise(cmd, data)

\* rpmsg_lite_remote_init creates the two virtqueues of the link, each with
\* one call of platform_init_interrupt.
PlatformInitInterrupt ==
    /\ mbox.register_count < 2
    /\ mbox' = platform_init_interrupt(mbox, mbox.register_count)
    /\ MboxOnly

\* the level-triggered A2B interrupt: taken while the ISR is installed and
\* bit 0 of A2B_STATUS is set
MboxIsr ==
    /\ mbox.installed
    /\ mbox.status = 1
    /\ mbox' = rpmsg_mbox_isr(mbox)
    /\ MboxOnly

\* the MCU rings the host
PlatformNotify ==
    /\ mbox.installed
    /\ mbox.b2a = 0
    /\ mbox' = platform_notify(mbox)
    /\ MboxOnly

NextMbox == HostRaises \/ PlatformInitInterrupt \/ MboxIsr \/ PlatformNotify

\* the interrupt is taken while it is asserted, and main() gets through
\* rpmsg_lite_remote_init
SpecMbox ==
    InitMbox /\ [][NextMbox]_vars /\ WF_vars(MboxIsr) /\ WF_vars(PlatformInitInterrupt)

RECURSIVE GoodOnes(_)
\* the messages of a log that carry the magic
GoodOnes(log) ==
    IF log = << >> THEN << >>
    ELSE IF log[1][2] = RL_RPMSG_MAGIC THEN << log[1] >> \o GoodOnes(Tail(log))
    ELSE GoodOnes(Tail(log))

\* the messages taken are the messages raised, in order, and env_isr has
\* been called once for each of them that carries the magic, with its link
\* id, and for no other
MboxForwarded ==
    /\ Len(mbox.acked) <= Len(mbox.raised)
    /\ \A i \in 1..Len(mbox.acked) :
          << mbox.acked[i][1], mbox.acked[i][2] >> = mbox.raised[i]
    /\ Len(mbox.env_isr) = Len(GoodOnes(mbox.acked))
    /\ \A i \in 1..Len(mbox.env_isr) :
          mbox.env_isr[i][1] = GoodOnes(mbox.acked)[i][1] % 256

\* C20: every message the host raises, before or after the ISR is
\* installed, is taken with a write-1-to-clear of the status bit; one that
\* carries the magic has then been passed to env_isr, one that carries
\* another data word has not.
C20_MailboxDelivered ==
    /\ [] MboxForwarded
    /\ \A n \in 1..MaxMbox :
          (Len(mbox.raised) >= n) ~> (Len(mbox.acked) >= n /\ mbox.status = 0)

\* a message raised before the ISR was installed has been taken by the
\* check at init, a wrong-magic one and a good one by the ISR; two calls of
\* env_isr have been made
C20_Witness ==
    /\ Len(mbox.acked) = 3
    /\ mbox.acked[1][3] = "init"
    /\ mbox.acked[1][2] = RL_RPMSG_MAGIC
    /\ mbox.acked[2] = << 0, 0, "isr" >>
    /\ mbox.acked[3] = << 257, RL_RPMSG_MAGIC, "isr" >>
    /\ mbox.env_isr = << << mbox.acked[1][1] % 256, 0 >>, << 1, 1 >> >>

(***************************************************************************)
(* The goroutines of the gateway                                           *)
(***************************************************************************)
\* coordinator calls made in one behaviour
MaxCalls == 2
\* capacity of a subscriber's channel (make(chan []byte, 100) in Subscribe)
SubQueueCap == 2
\* milliseconds a run of dmx_client may take
ExecMs == {3, 30}

GwOnly ==
    UNCHANGED << fw, mcu, drv, g_dmx, rx_buf, tx_pc, rx_pending, last_msg, send_ok,
                 responses, n_dispatch, decoded, diag, wire, script, script_pos,
                 uart, clk, mbox >>

\* a call of the coordinator: its name and its steps
Op(name, ch, v, prog) == [name |-> name, ch |-> ch, v |-> v, prog |-> prog]

\* goroutine record after the steps in front of rest; a call with nothing
\* left to do returns
Adv(gr, rest) ==
    IF rest = << >>
    THEN [gr EXCEPT !.prog = << >>, !.pc = "idle", !.res = IF gr.err THEN "error" ELSE "nil"]
    ELSE [gr EXCEPT !.prog = rest, !.pc = "ready"]

\* the non-blocking sends of broadcastState to the subscribers of m
GwSendTo(m, x, to) ==
    LET gr   == m.g[x]
        room == { s \in to : Len(m.queue[s]) < SubQueueCap }
    IN  [m EXCEPT !.queue = [s \in SubIds |-> IF s \in room THEN Append(@[s], gr.data) ELSE @[s]],
                  !.panic = @ \/ (to \cap m.closed # {}),
                  !.g[x] = Adv([gr EXCEPT !.enq = [s \in SubIds |-> IF s \in room THEN @[s] + 1 ELSE @[s]],
                                          !.full = [s \in SubIds |->
                                                      IF s \in to \ room THEN @[s] + 1 ELSE @[s]]],
                               Tail(gr.prog))]

\* the loop of broadcastState over the subscribers the call found when it
\* began, as if the loop did not hold subsMu
GwFanOut_stale_subs(m, x) == GwSendTo(m, x, m.g[x].subs0)

\* broadcastState: for ch := range s.subs, under subsMu.RLock()
GwFanOut(m, x) == GwSendTo(m, x, m.subs)

\* GwCan with sends that wait for room in every subscriber's channel
GwCan_blocking_send(m, x) ==
    /\ m.g[x].pc = "ready"
    /\ (Head(m.g[x].prog).k = "commit" => m.mu_r = {})
    /\ (Head(m.g[x].prog).k = "exec" => m.client_mu = "free")
    /\ (Head(m.g[x].prog).k = "send" => \A s \in m.subs : Len(m.queue[s]) < SubQueueCap)

\* whether goroutine x can take its next step: Lock() of s.mu waits for the
\* readers, exec waits for the client's mutex
GwCan(m, x) ==
    /\ m.g[x].pc = "ready"
    /\ (Head(m.g[x].prog).k = "commit" => m.mu_r = {})
    /\ (Head(m.g[x].prog).k = "exec" => m.client_mu = "free")

\* the next step of goroutine x
GwDo(m, x) ==
    LET gr   == m.g[x]
        ins  == Head(gr.prog)
        rest == Tail(gr.prog)
    IN  CASE ins.k = "commit" ->
                 [GwCommit(m, ins) EXCEPT !.g[x] = Adv(gr, rest)]
          [] ins.k = "exec" ->
                 \* func (c *Client) exec: c.mu.Lock() and the subprocess is started
                 [m EXCEPT !.client_mu = x, !.n_cmds = @ + 1,
                           !.gap = m.since, !.since = 0,
                           !.g[x] = [gr EXCEPT !.pc = "running"]]
          [] ins.k = "bcast" ->
                 [m EXCEPT !.g[x] = Adv(gr, IF m.subs = {} THEN SubSeq(rest, 3, Len(rest)) ELSE rest)]
          [] ins.k = "marshal" ->
                 [m EXCEPT !.g[x] = Adv([gr EXCEPT !.data = [enabled |-> m.enabled, values |-> m.lights,
                                                             ver |-> m.ver, op |-> gr.id]], rest)]
          [] ins.k = "send" -> GwFanOut(m, x)
          [] ins.k = "peek" ->
                 [m EXCEPT !.g[x] = Adv([gr EXCEPT !.on = m.enabled], rest)]
          [] ins.k = "gate" ->
                 [m EXCEPT !.g[x] = Adv(gr, IF gr.on THEN rest ELSE << >>)]
          [] ins.k = "rlock" ->
                 [m EXCEPT !.mu_r = @ \cup {x}, !.g[x] = Adv(gr, RefreshExecs(m, 1, 1))]
          [] ins.k = "runlock" ->
                 [m EXCEPT !.mu_r = @ \ {x}, !.g[x] = Adv(gr, rest)]

\* the subprocess of goroutine x is over after d ms: it succeeded (ok) or it
\* failed or ran into the timeout
GwExecOver(m, x, ok, d) ==
    LET gr  == m.g[x]
        ins == Head(gr.prog)
        t   == IF m.since + d > ThrottleMs THEN ThrottleMs ELSE m.since + d
        m1  == [m EXCEPT !.client_mu = "free", !.since = t, !.n_ok = IF ok THEN @ + 1 ELSE @]
    IN  IF ok THEN [m1 EXCEPT !.g[x] = Adv(gr, Tail(gr.prog))]
        ELSE IF ins.abort
             THEN [m1 EXCEPT !.g[x] = Adv([gr EXCEPT !.err = TRUE, !.failed = TRUE], << >>)]
             ELSE [m1 EXCEPT !.g[x] = Adv([gr EXCEPT !.failed = TRUE], Tail(gr.prog))]

\* a protocol handler calls the coordinator
GwCall(x, o) ==
    /\ x \in gw.live \ {"refresh"}
    /\ gw.g[x].pc = "idle"
    /\ gw.calls < MaxCalls
    /\ gw' = [gw EXCEPT !.calls = @ + 1,
                        !.g[x] = Adv([GIdle EXCEPT !.op = o.name, !.ch = o.ch, !.v = o.v,
                                                   !.id = gw.calls + 1, !.noop = (o.prog = << >>),
                                                   !.cmds0 = gw.n_cmds,
                                                   !.before = Mirror(gw), !.subs0 = gw.subs],
                                     o.prog)]
    /\ GwOnly

\* the ticker of StartRefresh fires
GwRefreshTick ==
    /\ "refresh" \in gw.live
    /\ gw.g["refresh"].pc = "idle"
    /\ gw.calls < MaxCalls
    /\ gw' = [gw EXCEPT !.calls = @ + 1,
                        !.g["refresh"] = Adv([GIdle EXCEPT !.op = "refresh", !.id = gw.calls + 1,
                                                           !.before = Mirror(gw), !.subs0 = gw.subs],
                                             ProgRefresh)]
    /\ GwOnly

GwRun == \E x \in Goroutines : GwCan(gw, x) /\ gw' = GwDo(gw, x) /\ GwOnly

GwExecEnd ==
    \E x \in Goroutines, ok \in BOOLEAN, d \in ExecMs :
        /\ gw.g[x].pc = "running"
        /\ gw' = GwExecOver(gw, x, ok, d)
        /\ GwOnly

\* func (s *State) Subscribe() chan []byte
Subscribe(s) ==
    /\ s \notin gw.subs \cup gw.closed
    /\ gw' = [gw EXCEPT !.subs = @ \cup {s}, !.queue[s] = << >>, !.seen[s] = 0]
    /\ GwOnly

\* func (s *State) Unsubscribe(ch chan []byte)
Unsubscribe(s) ==
    /\ s \in gw.subs
    /\ gw' = [gw EXCEPT !.subs = @ \ {s}, !.closed = @ \cup {s}, !.queue[s] = << >>]
    /\ GwOnly

\* the WebSocket handler of subscriber s takes a message from its channel
SubRead(s) ==
    /\ s \in gw.subs
    /\ gw.queue[s] # << >>
    /\ gw' = [gw EXCEPT !.queue[s] = Tail(@), !.seen[s] = Head(gw.queue[s]).ver]
    /\ GwOnly

(***************************************************************************)
(* One caller of the coordinator, and subscribers                          *)
(***************************************************************************)
\* the gateway started on a powered-on board, with the goroutines of live
\* and with the subscribers of subs connected
InitGw(live, subs) ==
    /\ InitCommon
    /\ fw = "mcu"
    /\ uart = UartPowerOn(UART_LCR_8N2)
    /\ clk = ClkInit
    /\ mbox = MboxInit
    /\ gw = [GwInit EXCEPT !.live = live, !.subs = subs]
    /\ script = << >>
    /\ script_pos = 0

InitCoord == InitGw({"w1"}, {})

\* calls a protocol handler may make
CoordOps ==
    { Op("enable", 0, 0, ProgEnable), Op("disable", 0, 0, ProgDisable),
      Op("blackout", 0, 0, ProgBlackout),
      Op("set_channel", 1, 255, ProgSetChannel(1, 255)),
      Op("set_channel", 512, 7, ProgSetChannel(512, 7)),
      Op("set_channel", 0, 9, ProgSetChannel(0, 9)),
      Op("set_channel", 513, 9, ProgSetChannel(513, 9)),
      Op("set_light", 0, 0, ProgSetLight("g", "a", ("r" :> 255))),
      Op("set_light", 0, 0, ProgSetLight("g", "x", ("r" :> 255))),
      Op("set_group", 0, 0, ProgSetGroup("g", ("r" :> 9))) }

CoordCall == \E o \in CoordOps : GwCall("w1", o)

Subscribes == \E s \in SubIds : Subscribe(s)

Unsubscribes == \E s \in SubIds : Unsubscribe(s)

SubReads == \E s \in SubIds : SubRead(s)

NextCoord == CoordCall \/ GwRun \/ GwExecEnd \/ Subscribes \/ SubReads

SpecCoord == InitCoord /\ [][NextCoord]_vars

\* the calls that change the mirror
Mutations == {"enable", "disable", "blackout", "set_channel", "set_light", "set_group"}

\* goroutine x has returned from a mutation during which a downstream
\* command failed or timed out
FailedMutation(x) ==
    /\ gw.g[x].pc = "idle"
    /\ gw.g[x].op \in Mutations
    /\ gw.g[x].failed

\* C21: when the downstream command of a mutation (enable, disable,
\* blackout, set_channel, set_light) fails or times out, the mirror (enabled
\* flag, channels, per-light values) is as it was before the call.
C21_FailureLeavesMirror ==
    FailedMutation("w1") => Mirror(gw) = gw.g["w1"].before

\* messages of the current call of goroutine x that reached the channel of
\* subscriber s, and that found it full
Enqueued(x, s) == gw.g[x].enq[s]
FoundFull(x, s) == gw.g[x].full[s]

\* C22: a mutation (enable, disable, blackout, set_channel, set_light,
\* set_group) whose downstream command fails sends no state message to any
\* subscriber.
C22_NoBroadcastOnFailure ==
    FailedMutation("w1") =>
        \A s \in SubIds : Enqueued("w1", s) = 0 /\ FoundFull("w1", s) = 0

\* goroutine x has returned from a mutation that had something to do and
\* whose downstream commands all succeeded
SucceededMutation(x) ==
    /\ gw.g[x].pc = "idle"
    /\ gw.g[x].op \in Mutations
    /\ ~gw.g[x].noop
    /\ ~gw.g[x].failed

\* C23: a subscriber registered before a mutation and still registered when
\* it completes has got exactly one state message of that mutation on its
\* channel, unless the channel was full: then the message is dropped and the
\* drop is counted.
C23_OneMessagePerMutation ==
    SucceededMutation("w1") =>
        \A s \in gw.g["w1"].subs0 \cap gw.subs :
            \/ Enqueued("w1", s) = 1 /\ FoundFull("w1", s) = 0
            \/ Enqueued("w1", s) = 0 /\ FoundFull("w1", s) = 1 /\ gw.dropped > 0

(***************************************************************************)
(* Fan-out: subscriber A drains eagerly, subscriber B never reads          *)
(***************************************************************************)
InitFan == InitGw({"w1"}, {"A", "B"})

FanOps ==
    { Op("blackout", 0, 0, ProgBlackout),
      Op("set_channel", 1, 255, ProgSetChannel(1, 255)),
      Op("set_group", 0, 0, ProgSetGroup("g", ("r" :> 9))) }

\* A takes a message as soon as there is one: the gateway takes no step
\* while A's channel holds a message
ADrained == gw.queue["A"] = << >>

FanCall == ADrained /\ \E o \in FanOps : GwCall("w1", o)
FanRun == ADrained /\ GwRun
FanExecEnd == ADrained /\ GwExecEnd
FanRead == SubRead("A")

NextFan == FanCall \/ FanRun \/ FanExecEnd \/ FanRead \/ Unsubscribes

\* goroutines are scheduled, the subprocess ends (at the latest by its
\* timeout), A reads
SpecFan ==
    InitFan /\ [][NextFan]_vars /\ WF_vars(FanRun) /\ WF_vars(FanExecEnd) /\ WF_vars(FanRead)

\* C24: with subscriber A draining eagerly and subscriber B never reading,
\* the mutator is never held up (its next step can always be taken, and
\* every call returns), no message for A finds A's channel full, A reads
\* the messages in the order of the mirror states they show, and B's
\* channel never holds more than its capacity.
C24_SlowSubscriberHarmless ==
    /\ [] /\ gw.g["w1"].pc = "ready" => GwCan(gw, "w1")
          /\ FoundFull("w1", "A") = 0
          /\ Len(gw.queue["B"]) <= SubQueueCap
    /\ [][ ("A" \in gw.subs /\ Len(gw'.queue["A"]) < Len(gw.queue["A"]) /\ "A" \in gw'.subs)
              => gw'.seen["A"] > gw.seen["A"] ]_vars
    /\ (gw.g["w1"].pc # "idle") ~> (gw.g["w1"].pc = "idle")

\* B's channel is full, a later mutation has found it so and has returned,
\* and A has been given and has read its message of that mutation
C24_Witness ==
    /\ gw.subs = {"A", "B"}
    /\ Len(gw.queue["B"]) = SubQueueCap
    /\ gw.g["w1"].pc = "idle"
    /\ gw.g["w1"].res = "nil"
    /\ FoundFull("w1", "B") > 0
    /\ Enqueued("w1", "A") > 0
    /\ ADrained
    /\ gw.seen["A"] = gw.ver

(***************************************************************************)
(* Two callers and the periodic refresh                                    *)
(***************************************************************************)
InitConc == InitGw({"w1", "w2", "refresh"}, {"A"})

ConcOps ==
    { Op("enable", 0, 0, ProgEnable),
      Op("set_channel", 1, 255, ProgSetChannel(1, 255)) }

ConcCall == \E x \in {"w1", "w2"}, o \in ConcOps : GwCall(x, o)

NextConc == ConcCall \/ GwRefreshTick \/ GwRun \/ GwExecEnd \/ SubReads

SpecConc == InitConc /\ [][NextConc]_vars

\* C25: each state message a subscriber takes from its channel shows a
\* mirror state at least as recent as the message it took before, whatever
\* the interleaving of the goroutines that broadcast (callers, refresh).
C25_DeliveredInOrder ==
    [][ \A s \in SubIds :
          (s \in gw.subs /\ s \in gw'.subs /\ Len(gw'.queue[s]) < Len(gw.queue[s]))
              => gw'.seen[s] >= gw.seen[s] ]_vars

\* C27: no goroutine has a dmx_client subprocess running while it holds the
\* mirror lock s.mu, in read or write mode (the write-locked parts of the
\* coordinator are single steps that start no subprocess).
C27_NoExecUnderMirrorLock ==
    \A x \in Goroutines : gw.g[x].pc = "running" => x \notin gw.mu_r

\* C26: two consecutive runs of dmx_client made through the coordinator
\* start at least throttle_ms apart.
C26_Throttled == gw.n_cmds >= 2 => gw.gap >= ThrottleMs

\* func (s *State) GetChannels() [512]uint8, element slot - 1
GetChannel(slot) == At(gw.channels, slot)

\* C28: the mirror is a 512-entry array, all 0 at the start: when
\* SetChannel(s, v) with s in 1..512 has returned, GetChannels()[s-1] is v
\* and every other entry is as before the call; a SetChannel with s outside
\* 1..512 changes nothing in the mirror, runs no downstream command and
\* returns nil.
C28_MirrorIsArray ==
    /\ gw.calls = 0 => \A s \in 1..DMX_UNIVERSE_SIZE : GetChannel(s) = 0
    /\ (gw.g["w1"].pc = "idle" /\ gw.g["w1"].op = "set_channel") =>
          IF gw.g["w1"].ch \in 1..DMX_UNIVERSE_SIZE
          THEN \A s \in 1..DMX_UNIVERSE_SIZE :
                   GetChannel(s) = IF s = gw.g["w1"].ch THEN gw.g["w1"].v
                                   ELSE At(gw.g["w1"].before[2], s)
          ELSE /\ Mirror(gw) = gw.g["w1"].before
               /\ gw.n_cmds = gw.g["w1"].cmds0
               /\ gw.g["w1"].res = "nil"

\* SetChannel(512, 7) has been made, and SetChannel(513, 9) after it has
\* returned nil: entry 512 holds 7 and one downstream command has been run
C28_Witness ==
    /\ gw.g["w1"].pc = "idle"
    /\ gw.g["w1"].op = "set_channel"
    /\ gw.g["w1"].ch = 513
    /\ gw.g["w1"].res = "nil"
    /\ GetChannel(512) = 7
    /\ gw.n_cmds = 1

(***************************************************************************)
(* Subscribers that come and go under concurrent broadcasts                *)
(***************************************************************************)
InitSubs == InitGw({"w1", "w2"}, {"A"})

SubsOps == { Op("set_channel", 1, 255, ProgSetChannel(1, 255)) }

SubsCall == \E x \in {"w1", "w2"}, o \in SubsOps : GwCall(x, o)

NextSubs == SubsCall \/ GwRun \/ GwExecEnd \/ Subscribes \/ Unsubscribes \/ SubReads

SpecSubs == InitSubs /\ [][NextSubs]_vars

\* C37: broadcastState never sends on a channel that Unsubscribe has
\* closed, and once Unsubscribe has returned nothing more is enqueued on
\* that channel.
C37_NoSendAfterClose ==
    /\ ~gw.panic
    /\ \A s \in gw.closed : gw.queue[s] = << >>

\* a broadcast that began while a subscriber was connected sent its message
\* to another one after the first had unsubscribed
C37_Witness ==
    \E x \in Goroutines, s \in gw.closed, t \in gw.subs :
        /\ s \in gw.g[x].subs0
        /\ gw.g[x].pc = "idle"
        /\ gw.g[x].enq[t] = 1
        /\ gw.g[x].enq[s] = 0

(***************************************************************************)
(* The mirror of the coordinator under the configurations that validation  *)
(* accepts                                                                 *)
(*   gw.mir.cfg       the configuration: its lights in the order of the    *)
(*                    file, each with its channels                         *)
(*   gw.mir.channels  s.channels                                           *)
(*   gw.mir.lights    s.lights: per key the LightState (Channels with      *)
(*                    their Value, Values by channel name)                 *)
(* An action is what a call does to the mirror while it holds s.mu.        *)
(***************************************************************************)
CfgCh(ch, color, name) == [Ch |-> ch, Color |-> color, Name |-> name]

CfgLight(group, name, channels) == [Group |-> group, Name |-> name, Channels |-> channels]

\* configuration files as yaml.Unmarshal returns them
ConfigFiles ==
    { << CfgLight("g", "a", << CfgCh(1, "red", ""), CfgCh(2, "white", "") >>),
         CfgLight("g", "b", << CfgCh(3, "red", "") >>) >>,
      << CfgLight("g", "a", << CfgCh(1, "white", ""), CfgCh(2, "white", "") >>) >>,
      << CfgLight("g", "a", << CfgCh(1, "red", "x"), CfgCh(2, "green", "x") >>),
         CfgLight("h", "a", << CfgCh(512, "blue", "") >>) >>,
      << CfgLight("g", "a", << CfgCh(1, "red", "") >>),
         CfgLight("g", "b", << CfgCh(1, "red", "") >>) >>,
      << CfgLight("g", "a", << CfgCh(0, "red", "") >>) >>,
      << CfgLight("g", "a", << CfgCh(513, "red", "") >>) >>,
      << CfgLight("g", "a", << CfgCh(1, "", "r") >>) >>,
      << CfgLight("g", "a", << >>) >>,
      << >> }

\* func (c *Config) Validate() error: TRUE for nil
Validate(c) ==
    /\ Len(c) # 0
    /\ \A l \in DOMAIN c :
          /\ Len(c[l].Channels) # 0
          /\ \A i \in DOMAIN c[l].Channels :
                /\ ~(c[l].Channels[i].Ch < 1 \/ c[l].Channels[i].Ch > 512)
                /\ c[l].Channels[i].Color # ""
                /\ \A k \in DOMAIN c : \A j \in DOMAIN c[k].Channels :
                      << k, j >> # << l, i >> => c[k].Channels[j].Ch # c[l].Channels[i].Ch

\* func (c *Config) ResolveLights() []ResolvedLight: the channels of a light
ResolveChannels(channels) ==
    [i \in DOMAIN channels |->
        [Ch |-> channels[i].Ch,
         Name |-> IF channels[i].Name = "" THEN channels[i].Color ELSE channels[i].Name,
         Value |-> 0]]

\* func LightKey(group, light string) string, for any group and light
CfgKey(group, name) == group \o "/" \o name

RECURSIVE MappingsOf(_, _, _, _)
\* s.channelToLight[idx] as buildLightsCache appends to it (channelIndex
\* counts from 1)
MappingsOf(c, idx, l, i) ==
    IF l > Len(c) THEN << >>
    ELSE IF i > Len(c[l].Channels) THEN MappingsOf(c, idx, l + 1, 1)
    ELSE (IF c[l].Channels[i].Ch - 1 = idx
          THEN << [lightKey |-> CfgKey(c[l].Group, c[l].Name), channelIndex |-> i] >>
          ELSE << >>) \o MappingsOf(c, idx, l, i + 1)

channelToLight(c, idx) == MappingsOf(c, idx, 1, 1)

\* func NewState(...) with buildLightsCache()
NewMirror(c) ==
    [cfg |-> c, channels |-> Zeroed,
     lights |-> [key \in { CfgKey(c[l].Group, c[l].Name) : l \in DOMAIN c } |->
                    LET l   == CHOOSE k \in DOMAIN c : CfgKey(c[k].Group, c[k].Name) = key
                        chs == ResolveChannels(c[l].Channels)
                    IN  [Channels |-> chs,
                         Values |-> [n \in { chs[i].Name : i \in DOMAIN chs } |-> 0]]]]

RECURSIVE ApplyMappings(_, _, _)
\* the loop of SetChannel over s.channelToLight[channel-1]
ApplyMappings(lights, maps, value) ==
    IF maps = << >> THEN lights
    ELSE LET mp == Head(maps)
         IN  IF mp.lightKey \notin DOMAIN lights THEN ApplyMappings(lights, Tail(maps), value)
             ELSE LET ls == lights[mp.lightKey]
                  IN  ApplyMappings(
                          [lights EXCEPT ![mp.lightKey] =
                              [ls EXCEPT !.Channels[mp.channelIndex].Value = value,
                                         !.Values[ls.Channels[mp.channelIndex].Name] = value]],
                          Tail(maps), value)

\* func (s *State) SetChannel(channel int, value uint8) error, on the mirror
State_SetChannel(mr, channel, value) ==
    IF channel < 1 \/ channel > 512 THEN mr
    ELSE [mr EXCEPT !.channels = Store(@, {channel - 1}, LAMBDA i : value),
                    !.lights = ApplyMappings(@, channelToLight(mr.cfg, channel - 1), value)]

RECURSIVE LightLoop(_, _, _, _)
\* the loop of SetLight over ls.Channels
LightLoop(mr, key, values, i) ==
    IF i > Len(mr.lights[key].Channels) THEN mr
    ELSE LET ch == mr.lights[key].Channels[i]
         IN  IF ch.Name \in DOMAIN values
             THEN LightLoop([mr EXCEPT !.channels = Store(@, {ch.Ch - 1}, LAMBDA c : values[ch.Name]),
                                       !.lights[key].Channels[i].Value = values[ch.Name],
                                       !.lights[key].Values[ch.Name] = values[ch.Name]],
                            key, values, i + 1)
             ELSE LightLoop(mr, key, values, i + 1)

\* func (s *State) SetLight(group, name string, values map[string]uint8) error, on the mirror
State_SetLight(mr, group, name, values) ==
    IF CfgKey(group, name) \notin DOMAIN mr.lights THEN mr
    ELSE LightLoop(mr, CfgKey(group, name), values, 1)

RECURSIVE GroupLoop(_, _, _, _)
\* func (s *State) SetGroup(groupName string, values map[string]uint8) error, on the mirror
GroupLoop(mr, group, values, l) ==
    IF l > Len(mr.cfg) THEN mr
    ELSE IF mr.cfg[l].Group = group
         THEN GroupLoop(State_SetLight(mr, group, mr.cfg[l].Name, values), group, values, l + 1)
         ELSE GroupLoop(mr, group, values, l + 1)

State_SetGroup(mr, group, values) == GroupLoop(mr, group, values, 1)

\* func (s *State) Blackout() error, on the mirror; ok: s.client.Blackout() returned nil
State_Blackout(mr, ok) ==
    IF ~ok THEN mr
    ELSE [mr EXCEPT !.channels = Zeroed,
                    !.lights = [key \in DOMAIN @ |->
                                   [Channels |-> [i \in DOMAIN @[key].Channels |->
                                                     [@[key].Channels[i] EXCEPT !.Value = 0]],
                                    Values |-> [n \in DOMAIN @[key].Values |-> 0]]]]

MirChannels == {0, 1, 2, 3, 512, 513}
MirValues == {0, 7, 255}
MirGroups == {"g", "h", "none"}
MirNames == {"a", "b", "none"}
MirValueMaps ==
    { ("red" :> 7), ("white" :> 255), ("red" :> 255 @@ "white" :> 0), ("x" :> 9),
      ("blue" :> 1), ("none" :> 5) }

InitMirror ==
    /\ InitCommon
    /\ fw = "mcu"
    /\ uart = UartPowerOn(UART_LCR_8N2)
    /\ clk = ClkInit
    /\ mbox = MboxInit
    /\ \E c \in ConfigFiles : Validate(c) /\ gw = [GwInit EXCEPT !.mir = NewMirror(c)]
    /\ script = << >>
    /\ script_pos = 0

MirSetChannel ==
    \E channel \in MirChannels, value \in MirValues :
        gw' = [gw EXCEPT !.mir = State_SetChannel(@, channel, value)] /\ GwOnly

MirSetLight ==
    \E group \in MirGroups, name \in MirNames, values \in MirValueMaps :
        gw' = [gw EXCEPT !.mir = State_SetLight(@, group, name, values)] /\ GwOnly

MirSetGroup ==
    \E group \in MirGroups, values \in MirValueMaps :
        gw' = [gw EXCEPT !.mir = State_SetGroup(@, group, values)] /\ GwOnly

MirBlackout ==
    \E ok \in BOOLEAN : gw' = [gw EXCEPT !.mir = State_Blackout(@, ok)] /\ GwOnly

NextMirror == MirSetChannel \/ MirSetLight \/ MirSetGroup \/ MirBlackout

SpecMirror == InitMirror /\ [][NextMirror]_vars

\* C39: whenever s.mu is free, for every light of the catalogue and each of
\* its channels i, channels[Ch_i - 1] = Channels[i].Value =
\* Values[Channels[i].Name], after any calls of SetChannel, SetLight,
\* SetGroup and Blackout on any configuration that Validate accepts.
C39_MirrorConsistent ==
    \A key \in DOMAIN gw.mir.lights :
        \A i \in DOMAIN gw.mir.lights[key].Channels :
            LET ch == gw.mir.lights[key].Channels[i]
            IN  /\ At(gw.mir.channels, ch.Ch - 1) = ch.Value
                /\ ch.Value = gw.mir.lights[key].Values[ch.Name]

(***************************************************************************)
(* The Modbus server: holding registers                                    *)
(*   gw.mb   the last request served: function code, start address and     *)
(*           quantity as decoded, the exception returned ("panic": the     *)
(*           handler ended in a run-time panic), the indices of channels   *)
(*           the handler read or handed to SetChannel (channel - 1), and   *)
(*           the registers of the response                                 *)
(***************************************************************************)
\* arithmetic of uint16
Uint16(x) == x % 65536

\* the loop of handleReadHoldingRegisters: it reads channels[startAddr + i]
\* for i = 0, 1, ... and ends in a panic at the first index that is not
\* below 512 (stop: that i, or quantity when there is none)
ReadLoop(channels, startAddr, quantity, r) ==
    LET stop == IF startAddr >= 512 THEN 0
                ELSE IF 512 - startAddr < quantity THEN 512 - startAddr ELSE quantity
    IN  IF stop < quantity
        THEN [r EXCEPT !.exc = "panic", !.idx = { Uint16(startAddr + i) : i \in 0..stop }]
        ELSE [r EXCEPT !.idx = { Uint16(startAddr + i) : i \in 0..(quantity - 1) },
                       !.resp = [i \in 1..quantity |-> At(channels, Uint16(startAddr + i - 1))]]

\* func (s *Server) handleReadHoldingRegisters(...), data at least 4 octets
handleReadHoldingRegisters(mr, startAddr, quantity) ==
    LET r == [fc |-> 3, startAddr |-> startAddr, quantity |-> quantity,
              exc |-> "Success", idx |-> {}, resp |-> << >>]
    IN  IF Uint16(startAddr + quantity) > 512
        THEN [r EXCEPT !.exc = "IllegalDataAddress"]
        ELSE ReadLoop(mr.channels, startAddr, quantity, r)

RECURSIVE WriteLoop(_, _, _, _, _)
\* the loop of handleWriteMultipleRegisters from register i on: the mirror
\* and the indices handed to SetChannel
WriteLoop(mr, startAddr, quantity, regs, i) ==
    IF ~(i < quantity) THEN [mir |-> mr, idx |-> {}]
    ELSE LET value   == IF regs[i + 1] > 255 THEN 255 ELSE regs[i + 1]
             channel == Uint16(startAddr + i) + 1
             rest    == WriteLoop(State_SetChannel(mr, channel, value), startAddr, quantity, regs, i + 1)
         IN  [rest EXCEPT !.idx = @ \cup {channel - 1}]

\* func (s *Server) handleWriteMultipleRegisters(...), data of 5 octets and
\* the registers regs
handleWriteMultipleRegisters(mr, startAddr, quantity, byteCount, regs) ==
    LET r == [fc |-> 16, startAddr |-> startAddr, quantity |-> quantity,
              exc |-> "Success", idx |-> {}, resp |-> << >>]
    IN  IF Uint16(startAddr + quantity) > 512
        THEN [mir |-> mr, mb |-> [r EXCEPT !.exc = "IllegalDataAddress"]]
        ELSE IF byteCount # quantity * 2 \/ 5 + 2 * Len(regs) < 5 + byteCount
        THEN [mir |-> mr, mb |-> [r EXCEPT !.exc = "IllegalDataValue"]]
        ELSE LET w == WriteLoop(mr, startAddr, quantity, regs, 0)
             IN  [mir |-> w.mir, mb |-> [r EXCEPT !.idx = w.idx, !.resp = << startAddr, quantity >>]]

MbStarts == {0, 511, 512, 65535}
MbQuantities == {0, 1, 2, 513, 65535}
MbRegs == { << >>, << 7 >>, << 7, 300 >> }
MbByteCounts == {0, 2, 4}

InitModbus ==
    /\ InitCommon
    /\ fw = "mcu"
    /\ uart = UartPowerOn(UART_LCR_8N2)
    /\ clk = ClkInit
    /\ mbox = MboxInit
    /\ gw = [GwInit EXCEPT !.mir = NewMirror(<< CfgLight("g", "a", << CfgCh(1, "red", ""), CfgCh(512, "white", "") >>) >>)]
    /\ script = << >>
    /\ script_pos = 0

MbRead ==
    \E startAddr \in MbStarts, quantity \in MbQuantities :
        gw' = [gw EXCEPT !.mb = handleReadHoldingRegisters(gw.mir, startAddr, quantity)] /\ GwOnly

MbWrite ==
    \E startAddr \in MbStarts, quantity \in MbQuantities, byteCount \in MbByteCounts, regs \in MbRegs :
        LET h == handleWriteMultipleRegisters(gw.mir, startAddr, quantity, byteCount, regs)
        IN  gw' = [gw EXCEPT !.mir = h.mir, !.mb = h.mb] /\ GwOnly

NextModbus == MbRead \/ MbWrite

SpecModbus == InitModbus /\ [][NextModbus]_vars

\* the registers [startAddr, startAddr + quantity) all lie in 0..511
MbRangeInside(startAddr, quantity) == quantity = 0 \/ startAddr + quantity <= 512

\* C40: the handlers of read-holding-registers and write-multiple-registers
\* answer IllegalDataAddress to every request whose registers
\* [start, start + quantity) do not all lie in 0..511, whatever the 16-bit
\* start and quantity (also when their sum passes 65535), so that no channel
\* index of 512 or more is read or written.
C40_ModbusRangeChecked ==
    gw.mb.fc # 0 =>
        /\ ~MbRangeInside(gw.mb.startAddr, gw.mb.quantity) => gw.mb.exc = "IllegalDataAddress"
        /\ \A ch \in gw.mb.idx : ch < 512

(***************************************************************************)
(* The scheduler                                                           *)
(***************************************************************************)
\* ticks of the scheduler's ticker in one behaviour
MaxTicks == 4
\* seconds in the day of the model
DayLen == 3
\* seconds from one reading of time.Now() to the next: the ticker has a
\* period of 1 s, two readings may fall into the same second or skip one
TickGaps == {0, 1, 2}

Ev(t, blackout) == [t |-> t, blackout |-> blackout]

\* schedules of the configuration, sorted by time as New leaves them
Schedules ==
    { << Ev(1, TRUE) >>,
      << Ev(0, FALSE), Ev(2, TRUE) >>,
      << Ev(1, FALSE), Ev(1, TRUE) >> }

InitSched ==
    /\ InitCommon
    /\ fw = "mcu"
    /\ uart = UartPowerOn(UART_LCR_8N2)
    /\ clk = ClkInit
    /\ mbox = MboxInit
    /\ \E evs \in Schedules :
          gw = [GwInit EXCEPT !.live = {"sched"}, !.sched.events = evs, !.sched.running = TRUE]
    /\ script = << >>
    /\ script_pos = 0

\* func (s *Scheduler) loop(), case <-ticker.C: check() and, through execute,
\* the call of the coordinator
SchedTick ==
    \E dt \in TickGaps :
        /\ gw.sched.running
        /\ gw.g["sched"].pc = "idle"
        /\ gw.sched.ticks < MaxTicks
        /\ LET sc == sched_check([gw.sched EXCEPT !.tod = (@ + dt) % DayLen, !.ticks = @ + 1])
           IN  gw' = [gw EXCEPT !.sched = sc,
                                !.g["sched"] =
                                    IF sc.ran = 0 THEN @
                                    ELSE Adv([GIdle EXCEPT !.op = IF sc.events[sc.ran].blackout
                                                                  THEN "blackout" ELSE "set_group",
                                                           !.before = Mirror(gw), !.subs0 = gw.subs,
                                                           !.cmds0 = gw.n_cmds],
                                             ProgExecute(sc.events[sc.ran]))]
        /\ GwOnly

NextSched == SchedTick \/ GwRun \/ GwExecEnd

SpecSched == InitSched /\ [][NextSched]_vars

\* C29: on each tick an event is executed if and only if the time of day
\* equals the event's time and the time label differs from the last
\* executed label; the label is then recorded.
C29_ExecutedIffDue ==
    [][ gw'.sched.ticks # gw.sched.ticks =>
          \A i \in DOMAIN gw.sched.events :
              /\ (gw'.sched.ran = i) <=>
                     (gw.sched.events[i].t = gw'.sched.tod /\ gw.sched.lastRun # gw'.sched.tod)
              /\ gw'.sched.ran = i => gw'.sched.lastRun = gw'.sched.tod ]_vars

\* C36: whenever a tick of the scheduler observes the time of day of a
\* configured event, that event is executed during the tick: on every day,
\* and for every event of several that share a time.
C36_EveryDueEventRuns ==
    [][ gw'.sched.ticks # gw.sched.ticks =>
          \A i \in DOMAIN gw.sched.events :
              gw.sched.events[i].t = gw'.sched.tod => gw'.sched.ran = i ]_vars

(***************************************************************************)
(* Shutdown of the gateway (main)                                          *)
(***************************************************************************)
\* the steps of main after <-ctx.Done(), in the order of the code
ShutdownSteps == << "refresh", "sched", "mqtt", "modbus", "http", "disable" >>

\* optional components by configuration: RefreshMs > 0, Schedule, MQTT, Modbus
Configurations ==
    { {"refresh", "sched", "mqtt", "modbus"}, {"refresh", "mqtt"}, {"sched"}, {} }

\* the callers a set of components brings: w1 is the MQTT client, w2 the HTTP server
LiveOf(parts) ==
    {"w2"} \cup (IF "mqtt" \in parts THEN {"w1"} ELSE {}) \cup (parts \cap {"refresh", "sched"})

InitLife ==
    /\ InitCommon
    /\ fw = "mcu"
    /\ uart = UartPowerOn(UART_LCR_8N2)
    /\ clk = ClkInit
    /\ mbox = MboxInit
    /\ \E parts \in Configurations :
          gw = [GwInit EXCEPT !.parts = parts, !.live = LiveOf(parts),
                              !.sched.events = IF "sched" \in parts THEN << Ev(1, TRUE) >> ELSE << >>,
                              !.sched.running = "sched" \in parts]
    /\ script = << >>
    /\ script_pos = 0

\* what one step of the shutdown does to the gateway
MainDo(m, step) ==
    LET m1 == [m EXCEPT !.down = Append(@, step)]
    IN  CASE step = "refresh" -> [m1 EXCEPT !.live = @ \ {"refresh"}]
          [] step = "sched"   -> [m1 EXCEPT !.live = @ \ {"sched"}, !.sched.running = FALSE]
          [] step = "mqtt"    -> [m1 EXCEPT !.live = @ \ {"w1"}]
          [] step = "modbus"  -> m1
          [] step = "http"    -> [m1 EXCEPT !.live = @ \ {"w2"}]
          [] step = "disable" ->
                [m1 EXCEPT !.g["main"] = Adv([GIdle EXCEPT !.op = "disable"],
                                             << InsExec("disable", 0, 0, FALSE) >>)]

\* the signal handler cancels the context
MainSignal ==
    /\ gw.mainpc = 0
    /\ gw' = [gw EXCEPT !.mainpc = 1]
    /\ GwOnly

\* func main(), one statement of the graceful shutdown; a component that was
\* not configured (nil) is passed over
MainStep ==
    /\ gw.mainpc \in DOMAIN ShutdownSteps
    /\ LET step == ShutdownSteps[gw.mainpc]
           m1   == [gw EXCEPT !.mainpc = @ + 1]
       IN  gw' = IF step \in {"http", "disable"} \cup gw.parts THEN MainDo(m1, step) ELSE m1
    /\ GwOnly

LifeOps == { Op("set_channel", 1, 255, ProgSetChannel(1, 255)) }

LifeCall == \E o \in LifeOps : GwCall("w2", o)

NextLife ==
    LifeCall \/ GwRefreshTick \/ GwRun \/ GwExecEnd \/ MainSignal \/ MainStep

SpecLife == InitLife /\ [][NextLife]_vars

\* place of a step in the order of shutdown: scheduler, protocol handlers,
\* disable, refresh
StepRank(step) ==
    CASE step = "sched" -> 1
      [] step \in {"mqtt", "modbus", "http"} -> 2
      [] step = "disable" -> 3
      [] step = "refresh" -> 4

\* C30: the steps of the shutdown come in the order: stop the scheduler,
\* stop the protocol handlers (MQTT, Modbus, HTTP), disable DMX, and only
\* then stop the periodic refresh.
C30_ShutdownOrder ==
    \A i, j \in DOMAIN gw.down :
        i < j => StepRank(gw.down[i]) <= StepRank(gw.down[j])

(***************************************************************************)
(* Invocations of the command-line client                                  *)
(***************************************************************************)
\* invocations of the client in one behaviour
MaxInvocations == 2

\* command lines (without the program name; numbers as atoi reads them)
CliArgv ==
    { << >>, << "help" >>, << "foo" >>, << "enable" >>, << "status" >>,
      << "timing", 45 >>, << "set", 1 >>, << "set", 0, << 1 >> >>, << "set", 1, << 256 >> >>,
      << "set", 1, << 255 >> >>, << "set", 512, << 1, 2 >> >> }

\* a process is started: main up to the call of the command function
CliStart(p, argv, open_ok, tty_ok) ==
    /\ gw.procs[p].pc \in {"none", "done"}
    /\ gw.invs < MaxInvocations
    /\ LET plan == cli_main(argv, open_ok, tty_ok)
           p0   == [CliIdle EXCEPT !.id = gw.invs + 1, !.argv = argv]
       IN  gw' = [gw EXCEPT !.invs = @ + 1,
                            !.procs[p] =
                                IF plan.go
                                THEN [p0 EXCEPT !.pc = "write", !.cmd = plan.cmd,
                                                !.payload = plan.payload, !.bufsize = plan.bufsize]
                                ELSE CliExit(p0, plan.ret, plan.why)]
    /\ GwOnly

\* send_cmd_and_recv: build_cmd_packet and write()
CliWrite(p, ok) ==
    /\ gw.procs[p].pc = "write"
    /\ LET pr == gw.procs[p]
       IN  gw' = IF ok
                 THEN [gw EXCEPT !.link = Append(@, [msg |-> build_cmd_packet(pr.cmd, pr.payload),
                                                     of |-> pr.id]),
                                 !.procs[p] = [pr EXCEPT !.pc = "read", !.phase = "hdr"]]
                 ELSE [gw EXCEPT !.procs[p] = CliExit(pr, -1, "write")]
    /\ GwOnly

\* read_exact: one read() of the octets at hand, and what follows when the
\* count is reached
CliRead(p) ==
    /\ gw.procs[p].pc = "read"
    /\ gw.ep # << >>
    /\ LET pr   == gw.procs[p]
           want == CliNeed(pr) - Len(pr.rd)
           n    == IF Len(gw.ep) < want THEN Len(gw.ep) ELSE want
           p1   == [pr EXCEPT !.rd = @ \o SubSeq(gw.ep, 1, n),
                              !.from = @ \cup { gw.ep[i].of : i \in 1..n }]
       IN  gw' = [gw EXCEPT !.ep = SubSeq(@, n + 1, Len(@)),
                            !.procs[p] = IF n = want THEN CliAfterRead(p1) ELSE p1]
    /\ GwOnly

\* wait_for_data returns 0: nothing arrived within TIMEOUT_MS
CliTimeout(p) ==
    /\ gw.procs[p].pc = "read"
    /\ gw.ep = << >>
    /\ gw' = [gw EXCEPT !.procs[p] = CliExit(@, -1, "timeout")]
    /\ GwOnly

RECURSIVE Flatten(_)
\* the octets of a sequence of packets, one after the other
Flatten(ss) == IF ss = << >> THEN << >> ELSE Head(ss) \o Flatten(Tail(ss))

\* the firmware serves the oldest message of the endpoint and its responses
\* reach the host
CliFwServe ==
    /\ gw.link # << >>
    /\ \E ok \in BOOLEAN : ApRecv(Head(gw.link).msg, ok, 0)
    /\ gw' = [gw EXCEPT !.link = Tail(@),
                        !.ep = @ \o LET all == Flatten(responses')
                                    IN  [i \in DOMAIN all |-> [b |-> all[i], of |-> Head(gw.link).of]]]
    /\ UNCHANGED << script, script_pos, uart, clk, mbox >>

InitCli ==
    /\ InitCommon
    /\ fw = "ap"
    /\ uart = UartPowerOn(UART_LCR_8N2)
    /\ clk = ClkInit
    /\ mbox = MboxInit
    /\ gw = GwInit
    /\ script = << >>
    /\ script_pos = 0

CliStarts == \E p \in CliProcs, argv \in CliArgv, open_ok, tty_ok \in BOOLEAN : CliStart(p, argv, open_ok, tty_ok)
CliWrites == \E p \in CliProcs, ok \in BOOLEAN : CliWrite(p, ok)
CliReads == \E p \in CliProcs : CliRead(p)
CliTimeouts == \E p \in CliProcs : CliTimeout(p)

NextCli == CliStarts \/ CliWrites \/ CliReads \/ CliTimeouts \/ CliFwServe

SpecCli == InitCli /\ [][NextCli]_vars

\* C31: the client exits with code 0 when the command succeeded and with
\* code 1 on every failure (open, arguments, unknown command, write,
\* timeout, magic, checksum, remote status).
C31_ExitCodes ==
    \A p \in CliProcs :
        gw.procs[p].pc = "done" =>
            gw.procs[p].exit = IF gw.procs[p].why = "ok" THEN 0 ELSE 1

\* C38: the response an invocation returns to its caller is the firmware's
\* response to the command this invocation sent.
C38_OwnResponse ==
    \A p \in CliProcs :
        (gw.procs[p].pc = "done" /\ gw.procs[p].why = "ok" /\ gw.procs[p].phase # "") =>
            gw.procs[p].from = { gw.procs[p].id }

(***************************************************************************)
(* The receive ring of the tiny core, index by index.  (The command        *)
(* service above keeps the content of the ring between tail and head as    *)
(* rx_pending.)                                                            *)
(***************************************************************************)
\* messages the host sends in one behaviour
MaxRingMsgs == 2

\* the loop of rpmsg_rx_callback over the payload: the tail does not move
\* while the callback runs, so the loop stores octets until next = g_rx_tail
\* and passes over all that follow
RingPut(p, payload) ==
    LET free == (p.g_rx_tail + RX_BUF_SIZE - p.g_rx_head - 1) % RX_BUF_SIZE
        n    == IF Len(payload) < free THEN Len(payload) ELSE free
        at   == { (p.g_rx_head + k) % RX_BUF_SIZE : k \in 0..(n - 1) }
    IN  [p EXCEPT !.g_rx_buf = Store(p.g_rx_buf, at,
                                     LAMBDA j : payload[((j + RX_BUF_SIZE - p.g_rx_head) % RX_BUF_SIZE) + 1]),
                  !.g_rx_head = (p.g_rx_head + n) % RX_BUF_SIZE]

\* static int32_t rpmsg_rx_callback(payload, payload_len, src, priv)
rpmsg_rx_callback(p, payload, src) ==
    RingPut([p EXCEPT !.g_rx_src = src, !.rx_in = @ \o payload], payload)

Upto(n) == [i \in 1..n |-> i]

\* messages of the host: the shortest command and set-channels commands that
\* fill the ring exactly and by one octet more
RingMsgs ==
    { PktEnable, SetChannelsPkt(0, Upto(RX_BUF_SIZE - 8)), SetChannelsPkt(0, Upto(RX_BUF_SIZE - 7)) }

InitRing ==
    /\ InitCommon
    /\ fw = "mcu"
    /\ HwInit
    /\ script = << >>
    /\ script_pos = 0

\* the interrupt of the link: a message is delivered to rpmsg_rx_callback
RingIsr ==
    \E msg \in RingMsgs, src \in SrcAddrs :
        /\ script_pos < MaxRingMsgs
        /\ script_pos' = script_pos + 1
        /\ mcu' = rpmsg_rx_callback(mcu, msg, src)
        /\ UNCHANGED << fw, drv, g_dmx, rx_buf, tx_pc, rx_pending, last_msg, send_ok,
                        responses, n_dispatch, decoded, diag, wire, script >>
        /\ UNCHANGED hwvars

\* main(): one turn of while (g_rx_head != g_rx_tail)
RingMain ==
    /\ mcu.g_rx_head # mcu.g_rx_tail
    /\ LET c == At(mcu.g_rx_buf, mcu.g_rx_tail)
           p == [mcu EXCEPT !.g_rx_tail = (@ + 1) % RX_BUF_SIZE, !.rx_out = Append(@, c)]
       IN  McuCommit(parse_rx_byte([McuW EXCEPT !.p = p], c), rx_pending)
    /\ UNCHANGED << fw, g_dmx, rx_buf, tx_pc, last_msg, send_ok, script, script_pos >>
    /\ UNCHANGED hwvars

NextRing == RingIsr \/ RingMain

SpecRing == InitRing /\ [][NextRing]_vars

\* C32: every octet delivered to rpmsg_rx_callback is passed to
\* parse_rx_byte exactly once and in arrival order: what was parsed is a
\* prefix of what arrived, and all of it once the ring is empty.
C32_RingKeepsOctets ==
    /\ Len(mcu.rx_out) <= Len(mcu.rx_in)
    /\ mcu.rx_out = SubSeq(mcu.rx_in, 1, Len(mcu.rx_out))
    /\ mcu.g_rx_head = mcu.g_rx_tail => mcu.rx_out = mcu.rx_in

(***************************************************************************)
(* Runs of data octets on the line of the tiny core                        *)
(***************************************************************************)
\* the step sends a BREAK or hands octets to the UART
McuWrites == fw = "mcu" /\ wire' # wire

\* C33: on the tiny core every run of data octets is immediately preceded
\* by one BREAK+MAB, holds the 513 octets of the frame in index order, and
\* frame_count goes up exactly once per run: a run begins at index 0 after
\* a BREAK, goes on where it stood, is counted when octet 512 is written,
\* and no enable or disable falls inside it.
C33_RunsAreWholeFrames ==
    [][ /\ McuWrites =>
            /\ IF drv.g_dmx_state = DMX_STATE_IDLE
               THEN \A i \in 0..(wire'.len - 1) : At(wire'.b, i) = At(drv.g_dmx_frame, i)
               ELSE /\ wire'.len > wire.len
                    /\ \A i \in 0..(wire.len - 1) : At(wire'.b, i) = At(wire.b, i)
                    /\ \A i \in wire.len..(wire'.len - 1) : At(wire'.b, i) = At(drv.g_dmx_frame, i)
            /\ drv'.g_frame_count =
                   drv.g_frame_count + (IF wire'.len = DMX_FRAME_SIZE THEN 1 ELSE 0)
        /\ (fw = "mcu" /\ ~McuWrites /\ drv'.g_enabled # 0 /\ drv.g_enabled # 0) =>
               drv'.g_frame_count = drv.g_frame_count
        /\ (fw = "mcu" /\ (drv'.g_enabled = 0) # (drv.g_enabled = 0)) =>
               drv.g_dmx_state = DMX_STATE_IDLE ]_vars

(***************************************************************************)
(* The big-core dispatcher and the length field of the header              *)
(***************************************************************************)
\* a message with a good magic and checksum whose header announces
\* claimed payload octets while it carries the octets of payload
PktLenAs(cmd, claimed, payload) ==
    LET body == << DMX_MAGIC_CMD, cmd, claimed % 256, (claimed \div 256) % 256 >> \o payload
    IN  body \o << dmx_calc_checksum(body, Len(body)) >>

\* the length field of the header of a message
HdrLen(msg) == msg[3] + 256 * msg[4]

LenMsgs ==
    { PktEnable,
      SetChannelsPkt(0, << 255 >>), SetChannelsPkt(1, << 7, 8 >>), SetTimingPkt(30, 200, 20),
      PktLenAs(CMD_DMX_SET_CHANNELS, 4, << 0, 0 >>),
      PktLenAs(CMD_DMX_SET_CHANNELS, 3, << 2, 0, 9, 9, 9 >>),
      PktLenAs(CMD_DMX_SET_TIMING, SIZEOF_dmx_timing_t, << 30, 0 >>) }

InitLen ==
    /\ InitCommon
    /\ fw = "ap"
    /\ HwInit
    /\ script = << >>
    /\ script_pos = 0

\* rpmsg_recv_thread receives a message of the host
ApRecvLen ==
    /\ \E msg \in LenMsgs, ok \in BOOLEAN, wild \in WildOctets : ApRecv(msg, ok, wild)
    /\ UNCHANGED << script, script_pos >>
    /\ UNCHANGED hwvars

NextLen == ApRecvLen

SpecLen == InitLen /\ [][NextLen]_vars

\* C34: the big-core dispatcher hands a handler a payload of length L only
\* when the message holds L + 5 octets; a message whose length field
\* disagrees with its size is answered InvalidLength and changes nothing
\* (no octet outside the message becomes channel or timing data).
C34_LengthFieldChecked ==
    [][ \A msg \in LenMsgs :
          (fw = "ap" /\ Dispatches(msg) /\ Len(msg) # HdrLen(msg) + 5) =>
              /\ g_dmx' = g_dmx
              /\ send_ok' => responses' = << ResponsePacket(STATUS_INVALID_LENGTH, << >>) >> ]_vars

(***************************************************************************)
(* The command buffer of the tiny-core parser                              *)
(***************************************************************************)
\* C35: whatever octets reach the tiny-core parser, no octet is stored at
\* an index >= CMD_BUF_SIZE of the command buffer (the buffer holds nothing
\* there, and while a packet is being assembled the next octet goes to an
\* index below CMD_BUF_SIZE), and the octet parsed in the checksum state
\* leaves the parser idle, from where the next octet stored goes to index 0.
C35_CommandBufferBounded ==
    /\ [](/\ \A i \in DOMAIN mcu.g_cmd_buf : i < CMD_BUF_SIZE
          /\ mcu.g_parse_state # PARSE_IDLE => mcu.g_cmd_idx < CMD_BUF_SIZE)
    /\ [][ /\ (mcu.g_parse_state = PARSE_CHECKSUM /\ Len(rx_pending') < Len(rx_pending)) =>
                mcu'.g_parse_state = PARSE_IDLE
           /\ (mcu.g_parse_state = PARSE_IDLE /\ mcu'.g_cmd_buf # mcu.g_cmd_buf) =>
                /\ mcu'.g_cmd_idx = 1
                /\ \A i \in (DOMAIN mcu.g_cmd_buf \cup DOMAIN mcu'.g_cmd_buf) \ {0} :
                       At(mcu'.g_cmd_buf, i) = At(mcu.g_cmd_buf, i) ]_vars

\* the longest packet the parser takes was stored to its last octet, at
\* index CMD_BUF_SIZE - 1, and dispatched
C35_Witness ==
    /\ mcu.g_cmd_idx = CMD_BUF_SIZE
    /\ mcu.g_parse_state = PARSE_IDLE
    /\ At(mcu.g_cmd_buf, CMD_BUF_SIZE - 2) # 0
    /\ n_dispatch = 1

====
